---- MODULE Spec2Model ----
(***************************************************************************)
(* wireworks: an in-process event bus.                                     *)
(*                                                                         *)
(*  - event.Event            go / try_cancel_pending_calls / first_result  *)
(*                           / await_all over an executor's futures        *)
(*  - util.GlobbableDict     dict with glob lookup and a cache             *)
(*  - registry.Registry      pattern -> set of callable references         *)
(*  - dispatcher.Dispatcher  call(): resolve, submit, return an event      *)
(*                                                                         *)
(* Strings that are matched (keys, glob patterns) are sequences of         *)
(* one-character strings.  A future is a natural number, the index of its  *)
(* state in fstate.  A handler is its index in the event's handler list.   *)
(***************************************************************************)
EXTENDS Integers, Sequences, FiniteSets, TLC

\* ------------------------------------------------------------------ bounds
MaxCalls == 2       \* longest handler list of an event
NumCallers == 1     \* threads that call go()
MaxElapsed == 1     \* timeouts one first_result call may sit through
MaxKeys == 2        \* most keys a GlobbableDict holds
MaxRefs == 2        \* most registrations made on a Registry
NumThreads == 2     \* threads that use one GlobbableDict
MaxLen == 3         \* longest key or glob pattern that is matched
MaxEvents == 3      \* most Dispatcher.call events made on one thread
MaxDispatchers == 2 \* most Dispatcher objects over one registry
NumGoThreads == 2   \* threads that call go() on one Event at once

Callers == 1..NumCallers
FutureIds == 1..MaxCalls
HandlerKinds == {"ret", "raise", "cancel0", "cancel1"}
Executors == {"sync", "pool"}
Args == {"x", "y"}

VARIABLES
    executor,            \* Event._executor: "sync" or "pool"
    calls,               \* Event._calls: sequence of handler kinds
    _cancelled,          \* Event._cancelled
    _dispatch_started,   \* Event._dispatch_started
    _futures,            \* Event._futures
    _completed_futures,  \* Event._completed_futures
    _unexecuted,         \* Event._unexecuted
    gpc,                 \* per caller: position inside go()
    gi,                  \* per caller: next position of the for loop
    one_callable,        \* per caller: the loop variable the shims close over
    goargs,              \* per caller: the (*args, **kwargs) of go()
    future,              \* per caller: the local variable `future` of go()
    fstate,              \* per future: state of the concurrent.futures.Future
    foutcome,            \* per future: result or exception it carries
    fcb,                 \* per future: _handle_complete is registered
    work,                \* per future: the unit of work submitted for it
    returned,            \* futures in the order executor.submit returned them
    seen,                \* handler invocations, in order
    op,                  \* the operation the last step called ("step": none)
    raised,              \* what the last operation raised to its caller
    fr_pc,               \* first_result: "idle" or "loop"
    fr_timeout,          \* first_result: "none" (block) or "finite"
    fr_elapsed,          \* first_result: timeouts elapsed in this call
    ret,                 \* what the last operation returned to its caller
    items,               \* GlobbableDict: its (key, value) pairs, in dict order
    _cache,              \* GlobbableDict._cache: per query, the cached list
    _sep,                \* GlobbableDict._sep
    _allow_wildcard_keys,\* GlobbableDict._allow_wildcard_keys
    default_factory,     \* GlobbableDict.default_factory is not None
    glob_pattern,        \* the argument of the last glob()
    globbed,             \* the list the last glob() returned
    arg_key,             \* the key or pattern argument of the last operation
    mutated,             \* a key was stored or deleted since the last glob()
    refreshed,           \* the last glob() followed a mutation and returned a
                         \* list other than the one glob() returned before it
    refs,                \* Registry: the callable references made by register
    sets,                \* Registry: per key, the set stored under the key
    alive,               \* per function: it is still reachable from its owner
    call_pattern,        \* Dispatcher._pattern of the last call()
    call_args,           \* the arguments of the last call()
    called,              \* the invocations the last call() made, in order
    call_futures,        \* the number of futures in the event call() returned
    call_list,           \* the list _all_matching_callables() gave to call()
    in_call,             \* call() is inside its for loop
    arg_absent,          \* the last _unregister_proxy was given a reference
                         \* that was not in the set of its pattern
    lock,                \* GlobbableDict._cachelock: its owner, 0 when free
    tpc,                 \* per thread: position inside __setitem__,
                         \* __delitem__ or glob
    targ,                \* per thread: the arguments of its operation
    tcache,              \* per thread: the dict self._cache gave to glob:
                         \* the current one (live) or, once _empty_cache
                         \* has replaced it, its entry for the thread's query
    tvals,               \* per thread: vals of _get_and_cache_glob_value
    since,               \* the key sets the dict has had since the write of
                         \* the last mutation that returned
    tsince,              \* per thread in glob: since when its glob read
                         \* self._cache, then the key set its scan read
    accept,              \* tsince of the glob that has just returned
    stack,               \* one thread's stack of Dispatcher.call frames
                         \* and handler invocations (shims), innermost last
    _event_threadlocal,  \* the thread's _event_threadlocal.event, NoEvent
                         \* when the attribute is absent
    n_events,            \* events Dispatcher.call has created
    got,                 \* what the last current_event() returned
    dispatchers,         \* the Dispatcher objects over the registry, each
                         \* with its _pattern and _executor; the first is the
                         \* Registry itself
    call_on,             \* the dispatcher the last operation was called on
    bound,               \* per handler: it is a bound method (o.fn) rather
                         \* than a plain function
    inst_alive,          \* per bound method: its instance is reachable
    fired,               \* the weak references whose callback has run:
                         \* pairs of a reference and "func" or "inst"
    glob_patterns,       \* the argument of the last glob_intersection()
    intersection         \* the values the last glob_intersection() returned

evars == <<executor, calls, _cancelled, _dispatch_started, _futures,
           _completed_futures, _unexecuted, gpc, gi, one_callable, goargs,
           future, fstate, foutcome, fcb, work, returned, seen, op, raised,
           fr_pc, fr_timeout, fr_elapsed, ret>>

dvars == <<items, _cache, _sep, _allow_wildcard_keys, default_factory,
           glob_pattern, globbed, mutated, refreshed, arg_key>>

rvars == <<refs, sets, alive, call_pattern, call_args, called, call_futures,
           call_list, in_call, arg_absent>>

thvars == <<lock, tpc, targ, tcache, tvals, since, tsince, accept>>

cvars == <<stack, _event_threadlocal, n_events, got>>

wvars == <<dispatchers, call_on>>

xvars == <<bound, inst_alive, fired>>

ivars == <<glob_patterns, intersection>>

vars == <<evars, dvars, rvars, thvars, cvars, wvars, xvars, ivars>>

\* no glob_intersection() yet
IntersectIdle ==
    /\ glob_patterns = <<>>
    /\ intersection = {}

\* Registry.__init__ calls Dispatcher.__init__ with its defaults
WithIdle ==
    /\ dispatchers = <<[pattern |-> <<"*">>, executor |-> "sync"]>>
    /\ call_on = 0

\* the thread-local without its event attribute; current_event() before any
\* was called
NoEvent == 0
NotAsked == [asked |-> FALSE, event |-> NoEvent]

CurrentIdle ==
    /\ stack = <<>>
    /\ _event_threadlocal = NoEvent
    /\ n_events = 0
    /\ got = NotAsked

Range(s) == {s[i] : i \in 1..Len(s)}

RECURSIVE SeqsUpTo(_, _)
SeqsUpTo(S, n) ==
    IF n = 0 THEN {<<>>}
    ELSE LET shorter == SeqsUpTo(S, n - 1)
         IN  shorter \cup {Append(s, x) : s \in {t \in shorter : Len(t) = n - 1}, x \in S}

NoOutcome == [kind |-> "none", by |-> 0]
NoError == [kind |-> "none", by |-> 0]

\* ret: kind is "none", "noresult" (first_result returned None), "value",
\* "raised" or "futures"; by is the handler whose outcome it is, sel the
\* future first_result selected (0: none), futs the futures of await_all
NoReturn == [kind |-> "none", by |-> 0, sel |-> 0, futs |-> {}]
NoneReturned == [kind |-> "noresult", by |-> 0, sel |-> 0, futs |-> {}]

\* ------------------------------------------------ concurrent.futures.Future
\* Future.cancelled()
cancelled(k) == fstate[k] \in {"CANCELLED", "CANCELLED_AND_NOTIFIED"}

\* what concurrent.futures.wait counts as done
done_state(k) == fstate[k] \in {"CANCELLED_AND_NOTIFIED", "FINISHED"}

\* Future.cancel() on every future of fs, in order, starting from the states
\* st: a PENDING future becomes CANCELLED and its done callbacks run; a future
\* in any other state is left alone.
cancel_state(st, fs) ==
    [k \in DOMAIN st |->
        IF k \in Range(fs) /\ st[k] = "PENDING" THEN "CANCELLED" ELSE st[k]]

cancel_completed(st, fs) ==
    _completed_futures \o SelectSeq(fs, LAMBDA k : st[k] = "PENDING" /\ fcb[k])

\* ------------------------------------------------------------- the handlers
\* def try_cancel_pending_calls(self, future): one required argument
try_cancel_accepts(nargs) == nargs = 1

\* "cancel0" and "cancel1" are handlers that call try_cancel_pending_calls on
\* their own event, with no argument and with one argument.
cancel_nargs(h) == IF calls[h] = "cancel0" THEN 0 ELSE 1

handler_cancels(h) ==
    calls[h] \in {"cancel0", "cancel1"} /\ try_cancel_accepts(cancel_nargs(h))

\* a handler invocation whose exception is not kept
handler_returns_always(h) == [kind |-> "value", by |-> h]

\* what the invocation of handler h returns or raises
handler_outcome(h) ==
    CASE calls[h] = "ret"   -> [kind |-> "value", by |-> h]
      [] calls[h] = "raise" -> [kind |-> "exc", by |-> h]
      [] OTHER              -> IF try_cancel_accepts(cancel_nargs(h))
                               THEN [kind |-> "value", by |-> h]
                               ELSE [kind |-> "typeerror", by |-> h]

\* the state the invocation of handler h leaves behind, from the states st
invoke_cancelled(h) == IF handler_cancels(h) THEN TRUE ELSE _cancelled
invoke_state(st, h) == IF handler_cancels(h) THEN cancel_state(st, _futures) ELSE st
invoke_completed(st, h) ==
    IF handler_cancels(h) THEN cancel_completed(st, _futures) ELSE _completed_futures

\* ------------------------------------------------------------ event.Event
EventInit ==
    /\ executor \in Executors
    /\ calls \in SeqsUpTo(HandlerKinds, MaxCalls)
    /\ _cancelled = FALSE
    /\ _dispatch_started = FALSE
    /\ _futures = <<>>
    /\ _completed_futures = <<>>
    /\ _unexecuted = <<>>
    /\ gpc = [t \in Callers |-> "idle"]
    /\ gi = [t \in Callers |-> 1]
    /\ one_callable = [t \in Callers |-> 0]
    /\ goargs = [t \in Callers |-> "x"]
    /\ future = [t \in Callers |-> 0]
    /\ fstate = <<>>
    /\ foutcome = <<>>
    /\ fcb = <<>>
    /\ work = <<>>
    /\ returned = <<>>
    /\ seen = <<>>
    /\ op = "step"
    /\ raised = NoError
    /\ fr_pc = "idle"
    /\ fr_timeout = "none"
    /\ fr_elapsed = 0
    /\ ret = NoReturn

frvars == <<fr_pc, fr_timeout, fr_elapsed>>
futvars == <<fstate, foutcome, fcb, work, returned, seen>>
framevars == <<gi, one_callable, goargs, future>>
listvars == <<_futures, _completed_futures, _unexecuted>>

GoReturned == _dispatch_started /\ \A t \in Callers : gpc[t] = "idle"
GoRunning == \E t \in Callers : gpc[t] # "idle"

\* go() without the guard of lines 34-35
GoCallUnguarded(t, a) ==
    /\ gpc[t] = "idle"
    /\ fr_pc = "idle"
    /\ op' = "go"
    /\ ret' = NoReturn
    /\ raised' = NoError
    /\ _dispatch_started' = TRUE
    /\ gpc' = [gpc EXCEPT ![t] = "loop"]
    /\ gi' = [gi EXCEPT ![t] = 1]
    /\ goargs' = [goargs EXCEPT ![t] = a]
    /\ UNCHANGED <<xvars, wvars, cvars, ivars, thvars, rvars, dvars, executor, calls, _cancelled, listvars, one_callable, future,
                   futvars, frvars>>

\* go(), lines 34-37: the guard and the flag
GoCall(t, a) ==
    /\ gpc[t] = "idle"
    /\ fr_pc = "idle"
    /\ op' = "go"
    /\ ret' = NoReturn
    /\ IF _dispatch_started
       THEN /\ raised' = [kind |-> "ValueError", by |-> 0]
            /\ UNCHANGED <<_dispatch_started, gpc, gi, goargs>>
       ELSE /\ raised' = NoError
            /\ _dispatch_started' = TRUE
            /\ gpc' = [gpc EXCEPT ![t] = "loop"]
            /\ gi' = [gi EXCEPT ![t] = 1]
            /\ goargs' = [goargs EXCEPT ![t] = a]
    /\ UNCHANGED <<xvars, wvars, cvars, ivars, thvars, rvars, dvars, executor, calls, _cancelled, listvars, one_callable, future,
                   futvars, frvars>>

\* go(), lines 39-42: the for statement binds one_callable, then the
\* cancellation check; past the last handler go() returns
GoLoop(t) ==
    /\ gpc[t] = "loop"
    /\ op' = "step"
    /\ ret' = NoReturn
    /\ raised' = NoError
    /\ IF gi[t] > Len(calls)
       THEN /\ gpc' = [gpc EXCEPT ![t] = "idle"]
            /\ UNCHANGED <<gi, one_callable, _unexecuted>>
       ELSE /\ one_callable' = [one_callable EXCEPT ![t] = gi[t]]
            /\ gi' = [gi EXCEPT ![t] = gi[t] + 1]
            /\ IF _cancelled
               THEN /\ _unexecuted' = Append(_unexecuted, gi[t])
                    /\ UNCHANGED gpc
               ELSE /\ gpc' = [gpc EXCEPT ![t] = "submit"]
                    /\ UNCHANGED _unexecuted
    /\ UNCHANGED <<xvars, wvars, cvars, ivars, thvars, rvars, dvars, executor, calls, _cancelled, _dispatch_started, _futures,
                   _completed_futures, goargs, future, futvars, frvars>>

\* the handler a shim of caller t's go() invokes: the closure reads the loop
\* variable of that frame when it runs
shim_callable(t) == one_callable[t]

\* go(), line 51, with SynchronousExecutor.submit: the shim runs inside submit
\* and the future comes back finished, holding the result or the exception
SyncSubmit(t) ==
    LET k == Len(fstate) + 1
        h == shim_callable(t)
    IN  /\ seen' = Append(seen, [work |-> k, handler |-> h, args |-> goargs[t]])
        /\ _cancelled' = invoke_cancelled(h)
        /\ _completed_futures' = invoke_completed(fstate, h)
        /\ fstate' = Append(invoke_state(fstate, h), "FINISHED")
        /\ foutcome' = Append(foutcome, handler_outcome(h))
        /\ work' = Append(work, [frame |-> t, handler |-> one_callable[t],
                                 args |-> goargs[t], queued |-> FALSE,
                                 result |-> handler_outcome(h)])

\* go(), line 51, with an executor that runs the work later (a thread pool):
\* submit queues the shim and returns a pending future
PoolSubmit(t) ==
    /\ fstate' = Append(fstate, "PENDING")
    /\ foutcome' = Append(foutcome, NoOutcome)
    /\ work' = Append(work, [frame |-> t, handler |-> one_callable[t],
                             args |-> goargs[t], queued |-> TRUE,
                             result |-> NoOutcome])
    /\ UNCHANGED <<seen, _cancelled, _completed_futures>>

GoSubmit(t) ==
    /\ gpc[t] = "submit"
    /\ op' = "step"
    /\ ret' = NoReturn
    /\ raised' = NoError
    /\ IF executor = "sync" THEN SyncSubmit(t) ELSE PoolSubmit(t)
    /\ fcb' = Append(fcb, FALSE)
    /\ returned' = Append(returned, Len(fstate) + 1)
    /\ future' = [future EXCEPT ![t] = Len(fstate) + 1]
    /\ gpc' = [gpc EXCEPT ![t] = "addcb"]
    /\ UNCHANGED <<xvars, wvars, cvars, ivars, thvars, rvars, dvars, executor, calls, _dispatch_started, _futures, _unexecuted,
                   gi, one_callable, goargs, frvars>>

\* go(), line 52: add_done_callback runs the callback at once on a future
\* that is already cancelled or finished
GoAddCallback(t) ==
    /\ gpc[t] = "addcb"
    /\ op' = "step"
    /\ ret' = NoReturn
    /\ raised' = NoError
    /\ IF fstate[future[t]] \in {"CANCELLED", "CANCELLED_AND_NOTIFIED", "FINISHED"}
       THEN /\ _completed_futures' = Append(_completed_futures, future[t])
            /\ UNCHANGED fcb
       ELSE /\ fcb' = [fcb EXCEPT ![future[t]] = TRUE]
            /\ UNCHANGED _completed_futures
    /\ gpc' = [gpc EXCEPT ![t] = "append"]
    /\ UNCHANGED <<xvars, wvars, cvars, ivars, thvars, rvars, dvars, executor, calls, _cancelled, _dispatch_started, _futures,
                   _unexecuted, framevars, fstate, foutcome, work, returned,
                   seen, frvars>>

\* go() inserting the future at the front of the list
GoAppendFront(t) ==
    /\ gpc[t] = "append"
    /\ op' = "step"
    /\ ret' = NoReturn
    /\ raised' = NoError
    /\ _futures' = <<future[t]>> \o _futures
    /\ gpc' = [gpc EXCEPT ![t] = "loop"]
    /\ UNCHANGED <<xvars, wvars, cvars, ivars, thvars, rvars, dvars, executor, calls, _cancelled, _dispatch_started,
                   _completed_futures, _unexecuted, framevars, futvars, frvars>>

\* go(), line 53
GoAppend(t) ==
    /\ gpc[t] = "append"
    /\ op' = "step"
    /\ ret' = NoReturn
    /\ raised' = NoError
    /\ _futures' = Append(_futures, future[t])
    /\ gpc' = [gpc EXCEPT ![t] = "loop"]
    /\ UNCHANGED <<xvars, wvars, cvars, ivars, thvars, rvars, dvars, executor, calls, _cancelled, _dispatch_started,
                   _completed_futures, _unexecuted, framevars, futvars, frvars>>

\* a pool worker takes a queued unit of work: set_running_or_notify_cancel,
\* then the shim runs and invokes the handler
WorkerStart(k) ==
    /\ executor = "pool"
    /\ k \in DOMAIN work
    /\ work[k].queued
    /\ op' = "step"
    /\ ret' = NoReturn
    /\ IF fstate[k] = "CANCELLED"
       THEN /\ fstate' = [fstate EXCEPT ![k] = "CANCELLED_AND_NOTIFIED"]
            /\ work' = [work EXCEPT ![k].queued = FALSE]
            /\ UNCHANGED <<seen, _cancelled, _completed_futures>>
       ELSE LET h == shim_callable(work[k].frame)
                running == [fstate EXCEPT ![k] = "RUNNING"]
            IN  /\ seen' = Append(seen, [work |-> k, handler |-> h,
                                         args |-> work[k].args])
                /\ _cancelled' = invoke_cancelled(h)
                /\ _completed_futures' = invoke_completed(running, h)
                /\ fstate' = invoke_state(running, h)
                /\ work' = [work EXCEPT ![k].queued = FALSE,
                                        ![k].result = handler_outcome(h)]
    /\ raised' = NoError
    /\ UNCHANGED <<xvars, wvars, cvars, ivars, thvars, rvars, dvars, executor, calls, _dispatch_started, _futures, _unexecuted,
                   gpc, framevars, foutcome, fcb, returned, frvars>>

\* the worker stores the result or the exception: set_result / set_exception
\* finish the future and run its done callbacks
WorkerFinish(k) ==
    /\ executor = "pool"
    /\ k \in DOMAIN fstate
    /\ fstate[k] = "RUNNING"
    /\ op' = "step"
    /\ ret' = NoReturn
    /\ fstate' = [fstate EXCEPT ![k] = "FINISHED"]
    /\ foutcome' = [foutcome EXCEPT ![k] = work[k].result]
    /\ _completed_futures' = IF fcb[k] THEN Append(_completed_futures, k)
                             ELSE _completed_futures
    /\ raised' = NoError
    /\ UNCHANGED <<xvars, wvars, cvars, ivars, thvars, rvars, dvars, executor, calls, _cancelled, _dispatch_started, _futures,
                   _unexecuted, gpc, framevars, fcb, work, returned, seen,
                   frvars>>

\* try_cancel_pending_calls called from outside the handlers
TryCancel(nargs) ==
    /\ fr_pc = "idle"
    /\ op' = "try_cancel"
    /\ ret' = NoReturn
    /\ IF try_cancel_accepts(nargs)
       THEN /\ raised' = NoError
            /\ _cancelled' = TRUE
            /\ fstate' = cancel_state(fstate, _futures)
            /\ _completed_futures' = cancel_completed(fstate, _futures)
       ELSE /\ raised' = [kind |-> "TypeError", by |-> 0]
            /\ UNCHANGED <<_cancelled, fstate, _completed_futures>>
    /\ UNCHANGED <<xvars, wvars, cvars, ivars, thvars, rvars, dvars, executor, calls, _dispatch_started, _futures, _unexecuted,
                   gpc, framevars, foutcome, fcb, work, returned, seen, frvars>>

\* cancel() on one future obtained from get_all_futures()
FutureCancel(k) ==
    /\ k \in Range(_futures)
    /\ op' = "step"
    /\ ret' = NoReturn
    /\ raised' = NoError
    /\ fstate' = cancel_state(fstate, <<k>>)
    /\ _completed_futures' = cancel_completed(fstate, <<k>>)
    /\ UNCHANGED <<xvars, wvars, cvars, ivars, thvars, rvars, dvars, executor, calls, _cancelled, _dispatch_started, _futures,
                   _unexecuted, gpc, framevars, foutcome, fcb, work, returned,
                   seen, frvars>>

get_all_futures == _futures
get_completed_futures == _completed_futures

\* concurrent.futures.wait over self._futures: the futures it reports done
wait_done == {k \in Range(_futures) : done_state(k)}
wait_not_done == Range(_futures) \ wait_done

\* first_result without the cancelled() test of line 92
fr_usable_any(done) == done

\* first_result, line 92: the futures of done it may return the result of
fr_usable(done) == {k \in done : ~cancelled(k)}

\* first_result swallowing the exception of the future
fr_raises_never(k) == NoError

\* first_result, line 93: future.result(0) returns the value or raises the
\* exception the future carries
fr_raises(k) == IF foutcome[k].kind \in {"exc", "typeerror"} THEN foutcome[k] ELSE NoError

evtvars == <<executor, calls, _cancelled, _dispatch_started, listvars, gpc,
             framevars, futvars>>

\* first_result, line 88, and the first test of the while loop
FRCall(tmo) ==
    /\ fr_pc = "idle"
    /\ GoReturned
    /\ op' = "first_result"
    /\ raised' = NoError
    /\ fr_elapsed' = 0
    /\ IF _futures = <<>>
       THEN fr_pc' = "idle" /\ ret' = NoneReturned /\ fr_timeout' = "none"
       ELSE fr_pc' = "loop" /\ ret' = NoReturn /\ fr_timeout' = tmo
    /\ UNCHANGED <<xvars, wvars, cvars, ivars, thvars, rvars, dvars, evtvars>>

\* first_result, lines 90-95: wait(FIRST_COMPLETED) returns with some future
\* done; the for loop returns the result of the first one that is not
\* cancelled, in the iteration order of the set wait returned
FRDone ==
    /\ fr_pc = "loop"
    /\ wait_done # {}
    /\ op' = "first_result"
    /\ IF fr_usable(wait_done) # {}
       THEN \E k \in fr_usable(wait_done) :
                /\ ret' = [kind |-> IF fr_raises(k) = NoError THEN "value" ELSE "raised",
                           by |-> foutcome[k].by, sel |-> k, futs |-> {}]
                /\ raised' = fr_raises(k)
                /\ fr_pc' = "idle" /\ fr_timeout' = "none" /\ fr_elapsed' = 0
       ELSE /\ raised' = NoError
            /\ IF wait_not_done = {}
               THEN /\ ret' = NoneReturned
                    /\ fr_pc' = "idle" /\ fr_timeout' = "none" /\ fr_elapsed' = 0
               ELSE /\ ret' = NoReturn
                    /\ UNCHANGED <<fr_pc, fr_timeout, fr_elapsed>>
    /\ UNCHANGED <<xvars, wvars, cvars, ivars, thvars, rvars, dvars, evtvars>>

\* first_result, lines 89-90: wait(FIRST_COMPLETED) returns because the
\* timeout elapsed with no future done; possible is then every future, which
\* is not empty, and the loop goes round again
FRTimeout ==
    /\ fr_pc = "loop"
    /\ fr_timeout = "finite"
    /\ wait_done = {}
    /\ fr_elapsed < MaxElapsed
    /\ op' = "first_result"
    /\ raised' = NoError
    /\ ret' = NoReturn
    /\ fr_elapsed' = fr_elapsed + 1
    /\ UNCHANGED <<xvars, wvars, cvars, ivars, thvars, rvars, dvars, evtvars, fr_pc, fr_timeout>>

\* await_all without the cancelled() filter of line 107
await_all_result_any(done) == done

\* await_all, line 107: the futures of done it returns
await_all_result(done) == {k \in done : ~cancelled(k)}

\* await_all: wait(ALL_COMPLETED) returns when every future is done or, with a
\* finite timeout, when the timeout elapses
AwaitAll(tmo) ==
    /\ fr_pc = "idle"
    /\ ~GoRunning
    /\ wait_not_done = {} \/ tmo = "finite"
    /\ op' = "await_all"
    /\ raised' = NoError
    /\ ret' = [kind |-> "futures", by |-> 0, sel |-> 0,
               futs |-> await_all_result(wait_done)]
    /\ UNCHANGED <<xvars, wvars, cvars, ivars, thvars, rvars, dvars, evtvars, frvars>>

Timeouts == {"none", "finite"}

EventNext ==
    \/ \E t \in Callers, a \in Args : GoCall(t, a)
    \/ \E t \in Callers : GoLoop(t)
    \/ \E t \in Callers : GoSubmit(t)
    \/ \E t \in Callers : GoAddCallback(t)
    \/ \E t \in Callers : GoAppend(t)
    \/ \E k \in FutureIds : WorkerStart(k)
    \/ \E k \in FutureIds : WorkerFinish(k)
    \/ \E n \in {0, 1} : TryCancel(n)
    \/ \E k \in FutureIds : FutureCancel(k)
    \/ \E tmo \in Timeouts : FRCall(tmo)
    \/ FRDone
    \/ FRTimeout
    \/ \E tmo \in Timeouts : AwaitAll(tmo)

\* ------------------------------------------------- util.GlobbableDict
\* keys, queries and values the operations are tried with
DictKeys == {<<"a", ".", "b">>, <<"b">>, <<"a", ".", "*">>}
Queries == {<<"a", ".", "*">>, <<"*">>, <<"*", "*">>}
Values == {<<"1">>, <<"2">>}

Tok(t, c) == [t |-> t, c |-> c]

\* _make_glob_re that takes every '*' on its own
_make_glob_re_single(p) ==
    [i \in 1..Len(p) |-> IF p[i] = "*" THEN Tok("star", "") ELSE Tok("lit", p[i])]

\* _make_glob_re escaping the whole pattern, wildcards included
_make_glob_re_escaped(p) == [i \in 1..Len(p) |-> Tok("lit", p[i])]

\* _make_glob_re, lines 136-140: splitting on '**' and then on '*' leaves the
\* literal characters (escaped), "[^sep]*" for each '*' and ".*" for each '**'
RECURSIVE glob_tokens(_, _)
glob_tokens(p, i) ==
    IF i > Len(p) THEN <<>>
    ELSE IF p[i] = "*" /\ i < Len(p) /\ p[i + 1] = "*"
         THEN <<Tok("dstar", "")>> \o glob_tokens(p, i + 2)
    ELSE IF p[i] = "*"
         THEN <<Tok("star", "")>> \o glob_tokens(p, i + 1)
    ELSE <<Tok("lit", p[i])>> \o glob_tokens(p, i + 1)

_make_glob_re(p) == glob_tokens(p, 1)

\* re.match of "^" + ... + "$": '.' matches any character but a newline, '$'
\* matches at the end and before a newline that ends the string
RECURSIVE re_match(_, _, _, _)
re_match(re, i, str, j) ==
    IF i > Len(re)
    THEN j > Len(str) \/ (j = Len(str) /\ str[j] = "\n")
    ELSE CASE re[i].t = "lit" ->
                  j <= Len(str) /\ str[j] = re[i].c /\ re_match(re, i + 1, str, j + 1)
           [] re[i].t = "star" ->
                  \/ re_match(re, i + 1, str, j)
                  \/ j <= Len(str) /\ str[j] # _sep /\ re_match(re, i, str, j + 1)
           [] re[i].t = "dstar" ->
                  \/ re_match(re, i + 1, str, j)
                  \/ j <= Len(str) /\ str[j] # "\n" /\ re_match(re, i, str, j + 1)

match(re, str) == re_match(re, 1, str, 1)

keys == [i \in 1..Len(items) |-> items[i].key]
has_key(k) == \E i \in 1..Len(items) : items[i].key = k
value_of(k) == items[CHOOSE i \in 1..Len(items) : items[i].key = k].value

\* _get_matching_items without the reverse search of lines 157-161
key_matches_forward(q, k) == match(_make_glob_re(q), k)

\* _get_matching_items, lines 152-161: the keys whose values it collects
key_matches(q, k) ==
    \/ match(_make_glob_re(q), k)
    \/ "*" \in Range(k) /\ match(_make_glob_re(k), q)

_get_matching_items(q) ==
    LET hits == SelectSeq(items, LAMBDA it : key_matches(q, it.key))
    IN  [i \in 1..Len(hits) |-> hits[i].value]

Miss == [hit |-> FALSE, vals |-> <<>>]

\* _empty_cache, keeping the cache as it is
_keep_cache == _cache

\* _empty_cache, lines 128-129
_empty_cache == [q \in Queries |-> Miss]

\* dict.__setitem__ and dict.__delitem__ of the base class
dict_set(k, v) ==
    IF has_key(k)
    THEN [i \in 1..Len(items) |-> IF items[i].key = k THEN [key |-> k, value |-> v]
                                  ELSE items[i]]
    ELSE Append(items, [key |-> k, value |-> v])

dict_del(k) == SelectSeq(items, LAMBDA it : it.key # k)

\* __setitem__ without the test of line 181
setitem_never_raises(k) == FALSE

\* __setitem__, line 181
setitem_raises(k) == ~_allow_wildcard_keys /\ "*" \in Range(k)

\* the object default_factory() makes for a missing key: a new object, named
\* here by the key it is made for
new_value(k) == k

DictInit ==
    /\ items = <<>>
    /\ _cache = [q \in Queries |-> Miss]
    /\ _sep = "."
    /\ _allow_wildcard_keys \in BOOLEAN
    /\ default_factory \in BOOLEAN
    /\ glob_pattern = <<>>
    /\ globbed = <<>>
    /\ mutated = FALSE
    /\ refreshed = FALSE
    /\ arg_key = <<>>

dictcfg == <<_sep, _allow_wildcard_keys, default_factory>>
dvars_but_key == <<items, _cache, _sep, _allow_wildcard_keys, default_factory,
                   glob_pattern, globbed, mutated, refreshed>>
globvars == <<glob_pattern, globbed, refreshed>>

\* d[k] = v: __setitem__, lines 180-186
SetItem(k, v) ==
    /\ has_key(k) \/ Len(items) < MaxKeys
    /\ op' = "setitem"
    /\ arg_key' = k
    /\ ret' = NoReturn
    /\ IF setitem_raises(k)
       THEN /\ raised' = [kind |-> "AttributeError", by |-> 0]
            /\ UNCHANGED <<items, _cache, mutated>>
       ELSE /\ raised' = NoError
            /\ items' = dict_set(k, v)
            /\ _cache' = _empty_cache
            /\ mutated' = TRUE
    /\ UNCHANGED <<xvars, wvars, cvars, ivars, thvars, rvars, evtvars, frvars, dictcfg, globvars>>

\* d[k]: a stored key is read; a missing key goes to defaultdict.__missing__,
\* which stores default_factory() through __setitem__ or raises KeyError
GetItem(k) ==
    /\ has_key(k) \/ Len(items) < MaxKeys
    /\ op' = "getitem"
    /\ arg_key' = k
    /\ ret' = NoReturn
    /\ IF has_key(k)
       THEN /\ raised' = NoError
            /\ UNCHANGED <<items, _cache, mutated>>
       ELSE IF ~default_factory
       THEN /\ raised' = [kind |-> "KeyError", by |-> 0]
            /\ UNCHANGED <<items, _cache, mutated>>
       ELSE IF setitem_raises(k)
       THEN /\ raised' = [kind |-> "AttributeError", by |-> 0]
            /\ UNCHANGED <<items, _cache, mutated>>
       ELSE /\ raised' = NoError
            /\ items' = dict_set(k, new_value(k))
            /\ _cache' = _empty_cache
            /\ mutated' = TRUE
    /\ UNCHANGED <<xvars, wvars, cvars, ivars, thvars, rvars, evtvars, frvars, dictcfg, globvars>>

\* del d[k]: __delitem__, lines 188-191; a missing key raises KeyError inside
\* the with block, before _empty_cache
DelItem(k) ==
    /\ op' = "delitem"
    /\ arg_key' = k
    /\ ret' = NoReturn
    /\ IF has_key(k)
       THEN /\ raised' = NoError
            /\ items' = dict_del(k)
            /\ _cache' = _empty_cache
            /\ mutated' = TRUE
       ELSE /\ raised' = [kind |-> "KeyError", by |-> 0]
            /\ UNCHANGED <<items, _cache, mutated>>
    /\ UNCHANGED <<xvars, wvars, cvars, ivars, thvars, rvars, evtvars, frvars, dictcfg, globvars>>

\* glob, lines 117-121, and _get_and_cache_glob_value, lines 171-178
glob(q) == IF _cache[q].hit THEN _cache[q].vals ELSE _get_matching_items(q)
glob_cache(q) ==
    IF _cache[q].hit THEN _cache
    ELSE [_cache EXCEPT ![q] = [hit |-> TRUE, vals |-> _get_matching_items(q)]]

Glob(q) ==
    /\ op' = "glob"
    /\ arg_key' = <<>>
    /\ ret' = NoReturn
    /\ raised' = NoError
    /\ glob_pattern' = q
    /\ globbed' = glob(q)
    /\ _cache' = glob_cache(q)
    /\ mutated' = FALSE
    /\ refreshed' = (mutated /\ glob_pattern = q /\ globbed # glob(q))
    /\ UNCHANGED <<xvars, wvars, cvars, ivars, thvars, rvars, evtvars, frvars, dictcfg, items>>

DictNext ==
    \/ \E k \in DictKeys, v \in Values : SetItem(k, v)
    \/ \E k \in DictKeys : GetItem(k)
    \/ \E k \in DictKeys : DelItem(k)
    \/ \E q \in Queries : Glob(q)

\* ------------------------------------- registry.Registry, dispatcher.Dispatcher
Fns == {"f", "g"}

\* plain functions, reachable, no weak reference callback run yet
ExpiryIdle ==
    /\ bound = [fn \in Fns |-> FALSE]
    /\ inst_alive = [fn \in Fns |-> TRUE]
    /\ fired = {}

RegistryIdle ==
    /\ refs = <<>>
    /\ sets = [k \in DictKeys |-> {}]
    /\ alive = [fn \in Fns |-> TRUE]
    /\ call_pattern = <<>>
    /\ call_args = "x"
    /\ called = <<>>
    /\ call_futures = 0
    /\ call_list = <<>>
    /\ in_call = FALSE
    /\ arg_absent = FALSE

callvars == <<call_pattern, call_args, called, call_futures, call_list, in_call>>

\* call_pattern .. call_list describe the call in flight or the call that has
\* just returned: the first operation after a call returned forgets them
CallObserved ==
    IF in_call THEN UNCHANGED callvars
    ELSE /\ call_pattern' = <<>>
         /\ call_args' = "x"
         /\ called' = <<>>
         /\ call_futures' = 0
         /\ call_list' = <<>>
         /\ in_call' = FALSE

\* StrongCallableReference.get_callable / WeakCallableReference.get_callable
get_callable(r) ==
    IF refs[r].strong \/ alive[refs[r].fn] THEN refs[r].fn ELSE "None"

\* register, lines 55-62: a new reference object, the set under the pattern
\* (made by the default factory when the key is missing), and set.add
Register(pattern, fn, strongly_reference) ==
    /\ Len(refs) < MaxRefs
    /\ alive[fn]
    /\ op' = "register"
    /\ arg_key' = pattern
    /\ arg_absent' = FALSE
    /\ ret' = NoReturn
    /\ IF ~has_key(pattern) /\ setitem_raises(pattern)
       THEN /\ raised' = [kind |-> "AttributeError", by |-> 0]
            /\ UNCHANGED <<items, _cache, refs, sets>>
       ELSE /\ raised' = NoError
            /\ items' = IF has_key(pattern) THEN items
                        ELSE dict_set(pattern, new_value(pattern))
            /\ _cache' = IF has_key(pattern) THEN _cache ELSE _empty_cache
            /\ refs' = Append(refs, [fn |-> fn, strong |-> strongly_reference,
                                     pattern |-> pattern])
            /\ sets' = [sets EXCEPT ![pattern] = @ \cup {Len(refs) + 1}]
    /\ CallObserved
    /\ UNCHANGED <<xvars, wvars, cvars, ivars, thvars, evtvars, frvars, dictcfg, globvars, mutated, alive>>

\* _unregister_proxy, lines 64-71: self._glob_dict[pattern] reads the set (a
\* missing pattern goes through the default factory and __setitem__), then
\* set.remove raises KeyError when the reference is not in the set.  Each weak
\* reference callback runs it; a reference to a bound method holds two weak
\* references (function and owner), so it can run twice for one reference.
\* Only weak references are made with the callback (line 59).
Unregister(pattern, r) ==
    /\ r <= Len(refs)
    /\ ~refs[r].strong
    /\ op' = "unregister"
    /\ arg_key' = pattern
    /\ arg_absent' = (r \notin sets[pattern])
    /\ ret' = NoReturn
    /\ IF ~has_key(pattern) /\ setitem_raises(pattern)
       THEN /\ raised' = [kind |-> "AttributeError", by |-> 0]
            /\ UNCHANGED <<items, _cache, sets>>
       ELSE /\ items' = IF has_key(pattern) THEN items
                        ELSE dict_set(pattern, new_value(pattern))
            /\ _cache' = IF has_key(pattern) THEN _cache ELSE _empty_cache
            /\ IF r \in sets[pattern]
               THEN /\ raised' = NoError
                    /\ sets' = [sets EXCEPT ![pattern] = @ \ {r}]
               ELSE /\ raised' = [kind |-> "KeyError", by |-> 0]
                    /\ UNCHANGED sets
    /\ CallObserved
    /\ UNCHANGED <<xvars, wvars, cvars, ivars, thvars, evtvars, frvars, dictcfg, globvars, mutated, refs, alive>>

\* a weak reference made without a dereference callback
not_dereferenced(fn) == sets

\* the sets after every weak reference to fn has died and its callback has run
\* _unregister_proxy(pattern, reference) with the pattern it was registered
\* under; a KeyError raised inside a weak reference callback is not propagated
dereferenced(fn) == [k \in DictKeys |-> {r \in sets[k] : refs[r].fn # fn}]

\* the owner of a weakly registered function lets go of it and the function is
\* collected; while call() is in its loop the list it iterates keeps the
\* callables it resolved alive
Collect(fn) ==
    /\ alive[fn]
    /\ \A r \in 1..Len(refs) : refs[r].fn = fn => ~refs[r].strong
    /\ in_call => fn \notin Range(call_list)
    /\ op' = "step"
    /\ arg_key' = <<>>
    /\ arg_absent' = FALSE
    /\ ret' = NoReturn
    /\ raised' = NoError
    /\ alive' = [alive EXCEPT ![fn] = FALSE]
    /\ sets' = dereferenced(fn)
    /\ CallObserved
    /\ UNCHANGED <<xvars, wvars, cvars, ivars, thvars, evtvars, frvars, items, _cache, dictcfg, globvars, mutated,
                   refs>>

\* the orders in which a set may be iterated
Perms(S) == {p \in [1..Cardinality(S) -> S] : \A i, j \in 1..Cardinality(S) : p[i] = p[j] => i = j}

\* _all_matching_callables, line 45: the references of every matched set
RECURSIVE flattened(_)
flattened(vals) ==
    IF vals = <<>> THEN {<<>>}
    ELSE {p \o rest : p \in Perms(sets[Head(vals)]), rest \in flattened(Tail(vals))}

\* _all_matching_callables, lines 46-47
resolved(rs) ==
    LET live == SelectSeq(rs, LAMBDA r : get_callable(r) # "None")
    IN  [i \in 1..Len(live) |-> get_callable(live[i])]

\* with_filter(q).call(a) with the default SynchronousExecutor, lines 23-36.
\* line 26: the for statement evaluates _all_matching_callables() once
CallBegin(q, a) ==
    /\ ~in_call
    /\ op' = "step"
    /\ arg_key' = <<>>
    /\ arg_absent' = FALSE
    /\ ret' = NoReturn
    /\ raised' = NoError
    /\ call_pattern' = q
    /\ call_args' = a
    /\ _cache' = glob_cache(q)
    /\ \E rs \in flattened(glob(q)) : call_list' = resolved(rs)
    /\ called' = <<>>
    /\ call_futures' = 0
    /\ in_call' = TRUE
    /\ UNCHANGED <<xvars, wvars, cvars, ivars, thvars, evtvars, frvars, dictcfg, items, globvars, mutated, refs,
                   sets, alive>>

\* the callable the loop is at, read from the registry as it is now
next_callable_live ==
    LET now == resolved(CHOOSE rs \in flattened(glob(call_pattern)) : TRUE)
    IN  IF Len(called) < Len(now) THEN now[Len(called) + 1] ELSE "None"

\* line 26: the callable the loop is at
next_callable == call_list[Len(called) + 1]

\* lines 27-34: the shim is submitted, the synchronous executor runs it at
\* once, and the future is added to the event
CallInvoke ==
    /\ in_call
    /\ Len(called) < Len(call_list)
    /\ op' = "step"
    /\ arg_key' = <<>>
    /\ arg_absent' = FALSE
    /\ ret' = NoReturn
    /\ raised' = NoError
    /\ called' = Append(called, [fn |-> next_callable, args |-> call_args])
    /\ call_futures' = call_futures + 1
    /\ UNCHANGED <<xvars, wvars, cvars, ivars, thvars, evtvars, frvars, dvars_but_key, refs, sets, alive,
                   call_pattern, call_args, call_list, in_call>>

\* line 36: the loop is over and call() returns the event
CallReturn ==
    /\ in_call
    /\ Len(called) = Len(call_list)
    /\ op' = "call"
    /\ arg_key' = <<>>
    /\ arg_absent' = FALSE
    /\ ret' = NoReturn
    /\ raised' = NoError
    /\ in_call' = FALSE
    /\ UNCHANGED <<xvars, wvars, cvars, ivars, thvars, evtvars, frvars, dvars_but_key, refs, sets, alive,
                   call_pattern, call_args, called, call_futures, call_list>>

CallNext ==
    \/ \E k \in DictKeys, fn \in Fns, st \in BOOLEAN : Register(k, fn, st)
    \/ \E k \in DictKeys, r \in 1..MaxRefs : Unregister(k, r)
    \/ \E fn \in Fns : Collect(fn)
    \/ \E q \in Queries, a \in Args : CallBegin(q, a)
    \/ CallInvoke
    \/ CallReturn

EventIdle ==
    /\ executor = "sync"
    /\ calls = <<>>
    /\ _cancelled = FALSE
    /\ _dispatch_started = FALSE
    /\ _futures = <<>>
    /\ _completed_futures = <<>>
    /\ _unexecuted = <<>>
    /\ gpc = [t \in Callers |-> "idle"]
    /\ gi = [t \in Callers |-> 1]
    /\ one_callable = [t \in Callers |-> 0]
    /\ goargs = [t \in Callers |-> "x"]
    /\ future = [t \in Callers |-> 0]
    /\ fstate = <<>>
    /\ foutcome = <<>>
    /\ fcb = <<>>
    /\ work = <<>>
    /\ returned = <<>>
    /\ seen = <<>>
    /\ op = "step"
    /\ raised = NoError
    /\ fr_pc = "idle"
    /\ fr_timeout = "none"
    /\ fr_elapsed = 0
    /\ ret = NoReturn

DictIdle ==
    /\ items = <<>>
    /\ _cache = [q \in Queries |-> Miss]
    /\ _sep = "."
    /\ _allow_wildcard_keys = FALSE
    /\ default_factory = TRUE
    /\ glob_pattern = <<>>
    /\ globbed = <<>>
    /\ mutated = FALSE
    /\ refreshed = FALSE
    /\ arg_key = <<>>

\* ------------------------------- util.GlobbableDict used by several threads
Threads == 1..NumThreads

\* queries and values the threads use
ThreadQueries == {<<"*">>, <<"*", "*">>}
ThreadValues == {<<"1">>}

NoArg == [kind |-> "none", k |-> <<>>, v |-> <<>>]
LiveCache == [live |-> TRUE, e |-> Miss]

ThreadsIdle ==
    /\ lock = 0
    /\ tpc = [t \in Threads |-> "idle"]
    /\ targ = [t \in Threads |-> NoArg]
    /\ tcache = [t \in Threads |-> LiveCache]
    /\ tvals = [t \in Threads |-> <<>>]
    /\ since = {<<>>}
    /\ tsince = [t \in Threads |-> {}]
    /\ accept = {}

\* an acquire that does not wait for the lock
lock_ignored(t) == TRUE

\* RLock.acquire: the lock is free or already held by this thread
lock_free(t) == lock = 0 \/ lock = t

\* a step that returns nothing to a caller
Silent ==
    /\ op' = "step"
    /\ raised' = NoError
    /\ ret' = NoReturn
    /\ glob_pattern' = <<>>
    /\ globbed' = <<>>
    /\ accept' = {}

thframe == <<ivars, xvars, wvars, cvars, evtvars, frvars, rvars, dictcfg, mutated, refreshed, arg_key>>

\* d[k] = v on thread t, lines 181-185: a rejected key raises before the lock
\* is touched; otherwise the thread takes the lock (it waits until the lock is
\* free) and the base class stores the key
TSetItem(t, k, v) ==
    /\ tpc[t] = "idle"
    /\ ret' = NoReturn
    /\ glob_pattern' = <<>>
    /\ globbed' = <<>>
    /\ accept' = {}
    /\ IF setitem_raises(k)
       THEN /\ op' = "setitem"
            /\ raised' = [kind |-> "AttributeError", by |-> 0]
            /\ UNCHANGED <<tpc, targ, lock, items, since>>
       ELSE /\ lock_free(t)
            /\ op' = "step"
            /\ raised' = NoError
            /\ lock' = t
            /\ items' = dict_set(k, v)
            /\ since' = since \cup {items'}
            /\ tpc' = [tpc EXCEPT ![t] = "m_empty"]
            /\ targ' = [targ EXCEPT ![t] = [kind |-> "set", k |-> <<>>, v |-> <<>>]]
    /\ UNCHANGED <<thframe, _cache, tcache, tvals, tsince>>

\* del d[k] on thread t, lines 189-190: the thread takes the lock and the base
\* class deletes the key; a missing key raises KeyError, which leaves the with
\* block and releases the lock
TDelItem(t, k) ==
    /\ tpc[t] = "idle"
    /\ lock_free(t)
    /\ ret' = NoReturn
    /\ glob_pattern' = <<>>
    /\ globbed' = <<>>
    /\ accept' = {}
    /\ IF ~has_key(k)
       THEN /\ op' = "delitem"
            /\ raised' = [kind |-> "KeyError", by |-> 0]
            /\ UNCHANGED <<tpc, targ, lock, items, since>>
       ELSE /\ op' = "step"
            /\ raised' = NoError
            /\ lock' = t
            /\ items' = dict_del(k)
            /\ since' = since \cup {items'}
            /\ tpc' = [tpc EXCEPT ![t] = "m_empty"]
            /\ targ' = [targ EXCEPT ![t] = [kind |-> "del", k |-> <<>>, v |-> <<>>]]
    /\ UNCHANGED <<thframe, _cache, tcache, tvals, tsince>>

\* lines 186 and 191, _empty_cache: self._cache becomes a new dict; a glob that
\* has already read self._cache keeps the old dict as it is now.  Then the
\* with block ends and the mutation returns to its caller.
TEmptyCache(t) ==
    /\ tpc[t] = "m_empty"
    /\ op' = IF targ[t].kind = "set" THEN "setitem" ELSE "delitem"
    /\ raised' = NoError
    /\ ret' = NoReturn
    /\ glob_pattern' = <<>>
    /\ globbed' = <<>>
    /\ accept' = {}
    /\ _cache' = _empty_cache
    /\ tcache' = [u \in Threads |->
                     IF tpc[u] = "g_sub" /\ tcache[u].live
                     THEN [live |-> FALSE, e |-> _cache[targ[u].k]]
                     ELSE tcache[u]]
    /\ lock' = 0
    /\ since' = {items}
    /\ tpc' = [tpc EXCEPT ![t] = "idle"]
    /\ targ' = [targ EXCEPT ![t] = NoArg]
    /\ UNCHANGED <<thframe, items, tvals, tsince>>

\* glob(q) on thread t, line 118: self._cache is read
TGlob(t, q) ==
    /\ tpc[t] = "idle"
    /\ Silent
    /\ tpc' = [tpc EXCEPT ![t] = "g_sub"]
    /\ targ' = [targ EXCEPT ![t] = [kind |-> "glob", k |-> q, v |-> <<>>]]
    /\ tcache' = [tcache EXCEPT ![t] = LiveCache]
    /\ tsince' = [tsince EXCEPT ![t] = since]
    /\ UNCHANGED <<thframe, items, _cache, lock, tvals, since>>

\* the dict glob subscripts: the current one, or the one it read before
\* _empty_cache replaced it
read_cache(t) == IF tcache[t].live THEN _cache[targ[t].k] ELSE tcache[t].e

\* lines 118-119: a hit is returned, a miss goes on to the lock
TSubscript(t) ==
    /\ tpc[t] = "g_sub"
    /\ ret' = NoReturn
    /\ raised' = NoError
    /\ IF read_cache(t).hit
       THEN /\ op' = "glob"
            /\ glob_pattern' = targ[t].k
            /\ globbed' = read_cache(t).vals
            /\ accept' = tsince[t]
            /\ tpc' = [tpc EXCEPT ![t] = "idle"]
            /\ targ' = [targ EXCEPT ![t] = NoArg]
            /\ tsince' = [tsince EXCEPT ![t] = {}]
       ELSE /\ op' = "step"
            /\ glob_pattern' = <<>>
            /\ globbed' = <<>>
            /\ accept' = {}
            /\ tpc' = [tpc EXCEPT ![t] = "g_lock"]
            /\ tsince' = [tsince EXCEPT ![t] = {}]
            /\ UNCHANGED targ
    /\ tcache' = [tcache EXCEPT ![t] = LiveCache]
    /\ UNCHANGED <<thframe, items, _cache, lock, tvals, since>>

\* lines 120 and 171: the thread takes the lock (it waits until the lock is
\* free) and vals = self._get_matching_items(glob_pattern)
TScan(t) ==
    /\ tpc[t] = "g_lock"
    /\ lock_free(t)
    /\ Silent
    /\ lock' = t
    /\ tvals' = [tvals EXCEPT ![t] = _get_matching_items(targ[t].k)]
    /\ tsince' = [tsince EXCEPT ![t] = {items}]
    /\ tpc' = [tpc EXCEPT ![t] = "g_store"]
    /\ UNCHANGED <<thframe, items, _cache, targ, tcache, since>>

\* lines 176-178 and the end of the with block of line 120: vals is stored in
\* the dict self._cache is now and returned
TStore(t) ==
    /\ tpc[t] = "g_store"
    /\ op' = "glob"
    /\ raised' = NoError
    /\ ret' = NoReturn
    /\ glob_pattern' = targ[t].k
    /\ globbed' = tvals[t]
    /\ accept' = tsince[t]
    /\ _cache' = [_cache EXCEPT ![targ[t].k] = [hit |-> TRUE, vals |-> tvals[t]]]
    /\ lock' = 0
    /\ tpc' = [tpc EXCEPT ![t] = "idle"]
    /\ targ' = [targ EXCEPT ![t] = NoArg]
    /\ tvals' = [tvals EXCEPT ![t] = <<>>]
    /\ tsince' = [tsince EXCEPT ![t] = {}]
    /\ UNCHANGED <<thframe, items, tcache, since>>

ThreadsNext ==
    \/ \E t \in Threads, k \in DictKeys, v \in ThreadValues : TSetItem(t, k, v)
    \/ \E t \in Threads, k \in DictKeys : TDelItem(t, k)
    \/ \E t \in Threads : TEmptyCache(t)
    \/ \E t \in Threads, q \in ThreadQueries : TGlob(t, q)
    \/ \E t \in Threads : TSubscript(t)
    \/ \E t \in Threads : TScan(t)
    \/ \E t \in Threads : TStore(t)

\* ------------------------------------------ util.GlobbableDict: matching
\* the characters keys and glob patterns are made of, and the separators a
\* dict is built with
Chars == {"a", ".", "/", "*", "\n"}
Separators == {".", "/"}
Strings == SeqsUpTo(Chars, MaxLen)

\* a dict built with one separator and one of the wildcard key settings, that
\* holds no key or one key
InitMatch ==
    /\ _sep \in Separators
    /\ _allow_wildcard_keys \in BOOLEAN
    /\ default_factory = FALSE
    /\ items \in {<<>>} \cup
                 {<<[key |-> k, value |-> <<"1">>]>> :
                      k \in {s \in Strings : _allow_wildcard_keys \/ "*" \notin Range(s)}}
    /\ _cache = [q \in Queries |-> Miss]
    /\ glob_pattern = <<>>
    /\ globbed = <<>>
    /\ mutated = FALSE
    /\ refreshed = FALSE
    /\ arg_key = <<>>
    /\ EventIdle
    /\ RegistryIdle
    /\ ThreadsIdle
    /\ CurrentIdle
    /\ WithIdle
    /\ ExpiryIdle /\ IntersectIdle

\* _get_matching_items(q), lines 143-163, on the new dict: the list glob(q)
\* computes, caches and returns on a miss
GetMatchingItems(q) ==
    /\ op = "step"
    /\ op' = "scan"
    /\ raised' = NoError
    /\ ret' = NoReturn
    /\ glob_pattern' = q
    /\ globbed' = _get_matching_items(q)
    /\ UNCHANGED <<xvars, wvars, cvars, ivars, thvars, evtvars, frvars, rvars, dictcfg, items, _cache, mutated,
                   refreshed, arg_key>>

MatchNext == \E q \in Strings : GetMatchingItems(q)

SpecMatch == InitMatch /\ [][MatchNext]_vars

\* ------------------------------------------- static_utilities, one thread
\* Dispatcher.call with the default SynchronousExecutor, seen from one thread:
\* call() pushes a frame, each submit runs a shim in that thread, and a
\* handler may itself call() before it returns.
EventIds == 1..MaxEvents
HandlerCounts == 0..MaxCalls

CallFrame(e, n) == [kind |-> "call", event |-> e, left |-> n]
ShimFrame(e) == [kind |-> "shim", event |-> e, left |-> 0]

Top == stack[Len(stack)]
Pop == SubSeq(stack, 1, Len(stack) - 1)
in_handler == stack # <<>> /\ Top.kind = "shim"

\* set_current_event(event): the attribute after the assignment
set_current_event(event) == event

\* clear_current_event(): del raises AttributeError when the attribute is
\* absent
clear_raises == _event_threadlocal = NoEvent
clear_current_event == NoEvent

\* current_event(): the attribute, or ValueError (NoEvent) when it is absent
current_event == [asked |-> TRUE, event |-> _event_threadlocal]

cframe == <<xvars, wvars, ivars, thvars, evtvars, frvars, rvars, dvars>>

\* call(), line 24, from outside every handler or from inside a handler:
\* a new event, and n matching callables to go through
DispatchCall(n) ==
    /\ stack = <<>> \/ in_handler
    /\ n_events < MaxEvents
    /\ op' = "step"
    /\ ret' = NoReturn
    /\ raised' = NoError
    /\ got' = NotAsked
    /\ n_events' = n_events + 1
    /\ stack' = Append(stack, CallFrame(n_events + 1, n))
    /\ UNCHANGED <<cframe, _event_threadlocal>>

\* line 34 with lines 27-28: submit runs the shim, which sets the current
\* event and enters the handler
ShimEnter ==
    /\ stack # <<>>
    /\ Top.kind = "call"
    /\ Top.left > 0
    /\ op' = "step"
    /\ ret' = NoReturn
    /\ raised' = NoError
    /\ got' = NotAsked
    /\ _event_threadlocal' = set_current_event(Top.event)
    /\ stack' = Append([stack EXCEPT ![Len(stack)].left = Top.left - 1],
                       ShimFrame(Top.event))
    /\ UNCHANGED <<cframe, n_events>>

\* current_event() called by the running handler, or by the thread outside
\* every handler invocation
CurrentEvent ==
    /\ stack = <<>> \/ in_handler
    /\ op' = "current_event"
    /\ ret' = NoReturn
    /\ got' = current_event
    /\ raised' = IF _event_threadlocal = NoEvent
                 THEN [kind |-> "ValueError", by |-> 0]
                 ELSE NoError
    /\ UNCHANGED <<cframe, stack, _event_threadlocal, n_events>>

\* lines 30-32: the handler returns or raises and the finally clause clears
\* the current event; an AttributeError of the del replaces the handler's
\* outcome, and submit stores what came out in the future
ShimExit(raises) ==
    /\ in_handler
    /\ op' = "shim_exit"
    /\ ret' = NoReturn
    /\ got' = NotAsked
    /\ raised' = IF clear_raises THEN [kind |-> "AttributeError", by |-> 0]
                 ELSE IF raises THEN [kind |-> "exc", by |-> 0]
                 ELSE NoError
    /\ _event_threadlocal' = clear_current_event
    /\ stack' = Pop
    /\ UNCHANGED <<cframe, n_events>>

\* line 36: the loop is over and call() returns the event
DispatchReturn ==
    /\ stack # <<>>
    /\ Top.kind = "call"
    /\ Top.left = 0
    /\ op' = "call"
    /\ ret' = NoReturn
    /\ raised' = NoError
    /\ got' = NotAsked
    /\ stack' = Pop
    /\ UNCHANGED <<cframe, _event_threadlocal, n_events>>

CurrentNext ==
    \/ \E n \in HandlerCounts : DispatchCall(n)
    \/ ShimEnter
    \/ CurrentEvent
    \/ \E raises \in BOOLEAN : ShimExit(raises)
    \/ DispatchReturn

InitCurrent == CurrentIdle /\ DictIdle /\ EventIdle /\ RegistryIdle /\ ThreadsIdle /\ WithIdle /\ ExpiryIdle /\ IntersectIdle
SpecCurrent == InitCurrent /\ [][CurrentNext]_vars

\* ------------------------------------- Dispatcher.call beside Event.go
\* Dispatcher.call over a resolved handler list (calls), with the executor and
\* the arguments that Event.go is then given. call() makes a dispatcher.Event,
\* which only collects futures (dispatcher.py lines 9-14).
DefaultPattern == <<"*">>

\* what a handler invoked by Dispatcher.call's shim returns or raises: its
\* current event is a dispatcher.Event, which has no try_cancel_pending_calls
dispatcher_handler_outcome(h) ==
    CASE calls[h] = "ret"   -> [kind |-> "value", by |-> h]
      [] calls[h] = "raise" -> [kind |-> "exc", by |-> h]
      [] OTHER              -> [kind |-> "attributeerror", by |-> h]

\* the handler a shim of call() invokes: the closure reads the loop variable
\* when it runs
dispatcher_shim_callable == call_list[Len(called)]

dframe == <<xvars, wvars, cvars, ivars, thvars, evars, dvars, refs, sets, alive, arg_absent>>

\* call(), lines 24-26: the event and the matching callables
DispatcherCall(a) ==
    /\ ~in_call
    /\ call_pattern = <<>>
    /\ ~_dispatch_started
    /\ call_pattern' = DefaultPattern
    /\ call_args' = a
    /\ call_list' = [i \in 1..Len(calls) |-> i]
    /\ called' = <<>>
    /\ call_futures' = 0
    /\ in_call' = TRUE
    /\ UNCHANGED dframe

\* lines 27-34: submit; the synchronous executor runs the shim inside submit,
\* another executor queues it
DispatcherSubmit ==
    /\ in_call
    /\ Len(called) < Len(call_list)
    /\ called' = Append(called,
           IF executor = "sync"
           THEN [fn |-> next_callable, args |-> call_args, ran |-> next_callable,
                 outcome |-> dispatcher_handler_outcome(next_callable)]
           ELSE [fn |-> next_callable, args |-> call_args, ran |-> 0,
                 outcome |-> NoOutcome])
    /\ call_futures' = call_futures + 1
    /\ UNCHANGED <<dframe, call_pattern, call_args, call_list, in_call>>

\* a pool worker runs the i-th queued shim
DispatcherWorker(i) ==
    /\ executor = "pool"
    /\ i \in DOMAIN called
    /\ called[i].ran = 0
    /\ called' = [called EXCEPT
                    ![i].ran = dispatcher_shim_callable,
                    ![i].outcome = dispatcher_handler_outcome(dispatcher_shim_callable)]
    /\ UNCHANGED <<dframe, call_pattern, call_args, call_list, in_call, call_futures>>

\* line 36
DispatcherReturn ==
    /\ in_call
    /\ Len(called) = Len(call_list)
    /\ in_call' = FALSE
    /\ UNCHANGED <<dframe, call_pattern, call_args, call_list, called, call_futures>>

dispatcher_done ==
    /\ call_pattern = DefaultPattern
    /\ ~in_call
    /\ \A i \in DOMAIN called : called[i].ran # 0

\* Event.go with the same handler list, executor and arguments, once the
\* dispatcher's call is over
DispatchNext ==
    \/ \E a \in Args : DispatcherCall(a)
    \/ DispatcherSubmit
    \/ \E i \in FutureIds : DispatcherWorker(i)
    \/ DispatcherReturn
    \/ \E t \in Callers : dispatcher_done /\ GoCall(t, call_args)
    \/ \E t \in Callers : GoLoop(t)
    \/ \E t \in Callers : GoSubmit(t)
    \/ \E t \in Callers : GoAddCallback(t)
    \/ \E t \in Callers : GoAppend(t)
    \/ \E k \in FutureIds : WorkerStart(k)
    \/ \E k \in FutureIds : WorkerFinish(k)

InitDispatch == EventInit /\ DictIdle /\ RegistryIdle /\ ThreadsIdle /\ CurrentIdle /\ WithIdle /\ ExpiryIdle /\ IntersectIdle
SpecDispatch == InitDispatch /\ [][DispatchNext]_vars

\* ------------------------------ Dispatcher.with_filter, with_executor
DispatcherIds == 1..MaxDispatchers

\* a dispatcher changed in place instead of a new one
with_filter_in_place(d, pattern) == [dispatchers EXCEPT ![d].pattern = pattern]

\* with_filter, lines 38-39: a new Dispatcher over the same glob dict with the
\* receiver's executor
with_filter(d, pattern) ==
    Append(dispatchers, [pattern |-> pattern, executor |-> dispatchers[d].executor])

\* with_executor, lines 41-42: a new Dispatcher with the receiver's pattern
with_executor(d, ex) ==
    Append(dispatchers, [pattern |-> dispatchers[d].pattern, executor |-> ex])

wframe == <<xvars, cvars, ivars, thvars, evtvars, frvars, dvars_but_key, refs, sets, alive>>

WithFilter(d, pattern) ==
    /\ d \in DOMAIN dispatchers
    /\ Len(dispatchers) < MaxDispatchers
    /\ op' = "with_filter"
    /\ arg_key' = pattern
    /\ arg_absent' = FALSE
    /\ ret' = NoReturn
    /\ raised' = NoError
    /\ call_on' = d
    /\ dispatchers' = with_filter(d, pattern)
    /\ CallObserved
    /\ UNCHANGED wframe

WithExecutor(d, ex) ==
    /\ d \in DOMAIN dispatchers
    /\ Len(dispatchers) < MaxDispatchers
    /\ op' = "with_executor"
    /\ arg_key' = <<>>
    /\ arg_absent' = FALSE
    /\ ret' = NoReturn
    /\ raised' = NoError
    /\ call_on' = d
    /\ dispatchers' = with_executor(d, ex)
    /\ CallObserved
    /\ UNCHANGED wframe

\* call(a) on dispatcher d, lines 23-36, from the resolution of the matching
\* callables to the return of the event: every resolved callable is submitted,
\* in order, to the dispatcher's executor
CallOn(d, a) ==
    /\ d \in DOMAIN dispatchers
    /\ ~in_call
    /\ op' = "call"
    /\ arg_key' = <<>>
    /\ arg_absent' = FALSE
    /\ ret' = NoReturn
    /\ raised' = NoError
    /\ call_on' = d
    /\ call_pattern' = dispatchers[d].pattern
    /\ call_args' = a
    /\ _cache' = glob_cache(dispatchers[d].pattern)
    /\ \E rs \in flattened(glob(dispatchers[d].pattern)) :
           /\ call_list' = resolved(rs)
           /\ called' = [i \in 1..Len(resolved(rs)) |->
                            [fn |-> resolved(rs)[i], args |-> a,
                             executor |-> dispatchers[d].executor]]
           /\ call_futures' = Len(resolved(rs))
    /\ in_call' = FALSE
    /\ UNCHANGED <<xvars, dispatchers, cvars, ivars, thvars, evtvars, frvars, dictcfg, items,
                   globvars, mutated, refs, sets, alive>>

WithNext ==
    \/ \E k \in DictKeys, fn \in Fns, st \in BOOLEAN : Register(k, fn, st)
    \/ \E d \in DispatcherIds, q \in Queries : WithFilter(d, q)
    \/ \E d \in DispatcherIds, ex \in Executors : WithExecutor(d, ex)
    \/ \E d \in DispatcherIds, a \in Args : CallOn(d, a)

InitWith == WithIdle /\ RegistryIdle /\ DictIdle /\ EventIdle /\ ThreadsIdle /\ CurrentIdle /\ ExpiryIdle /\ IntersectIdle
SpecWith == InitWith /\ [][WithNext]_vars

\* --------------------------------------- Event.go called by several threads
\* go() run by the threads of GoThreads at once, with the SynchronousExecutor:
\* each thread runs the handlers it submits inside submit. Lines 34-35 and
\* line 37 are two steps of a thread: nothing makes the test and the
\* assignment atomic.
GoThreads == 1..NumGoThreads

GoInit ==
    /\ executor = "sync"
    /\ calls \in SeqsUpTo(HandlerKinds, MaxCalls)
    /\ _cancelled = FALSE
    /\ _dispatch_started = FALSE
    /\ _futures = <<>>
    /\ _completed_futures = <<>>
    /\ _unexecuted = <<>>
    /\ gpc = [t \in GoThreads |-> "idle"]
    /\ gi = [t \in GoThreads |-> 1]
    /\ one_callable = [t \in GoThreads |-> 0]
    /\ goargs = [t \in GoThreads |-> "x"]
    /\ future = [t \in GoThreads |-> 0]
    /\ fstate = <<>>
    /\ foutcome = <<>>
    /\ fcb = <<>>
    /\ work = <<>>
    /\ returned = <<>>
    /\ seen = <<>>
    /\ op = "step"
    /\ raised = NoError
    /\ fr_pc = "idle"
    /\ fr_timeout = "none"
    /\ fr_elapsed = 0
    /\ ret = NoReturn

\* lines 34-35 as one atomic step with line 37
go_test_and_set(t) == ~_dispatch_started /\ \A u \in GoThreads : gpc[u] # "set"

\* lines 34-35: the test a thread makes when it enters go()
go_test(t) == ~_dispatch_started

\* go(), lines 34-35, on thread t
GoTest(t, a) ==
    /\ gpc[t] = "idle"
    /\ op' = "go"
    /\ ret' = NoReturn
    /\ IF go_test(t)
       THEN /\ raised' = NoError
            /\ gpc' = [gpc EXCEPT ![t] = "set"]
            /\ goargs' = [goargs EXCEPT ![t] = a]
       ELSE /\ raised' = [kind |-> "ValueError", by |-> t]
            /\ UNCHANGED <<gpc, goargs>>
    /\ UNCHANGED <<xvars, wvars, cvars, ivars, thvars, rvars, dvars, executor, calls, _cancelled,
                   _dispatch_started, listvars, gi, one_callable, future, futvars,
                   frvars>>

\* go(), line 37, on thread t
GoSet(t) ==
    /\ gpc[t] = "set"
    /\ op' = "step"
    /\ ret' = NoReturn
    /\ raised' = NoError
    /\ _dispatch_started' = TRUE
    /\ gpc' = [gpc EXCEPT ![t] = "loop"]
    /\ gi' = [gi EXCEPT ![t] = 1]
    /\ UNCHANGED <<xvars, wvars, cvars, ivars, thvars, rvars, dvars, executor, calls, _cancelled, listvars,
                   one_callable, goargs, future, futvars, frvars>>

GoNext ==
    \/ \E t \in GoThreads, a \in Args : GoTest(t, a)
    \/ \E t \in GoThreads : GoSet(t)
    \/ \E t \in GoThreads : GoLoop(t)
    \/ \E t \in GoThreads : GoSubmit(t)
    \/ \E t \in GoThreads : GoAddCallback(t)
    \/ \E t \in GoThreads : GoAppend(t)

InitGo == GoInit /\ DictIdle /\ RegistryIdle /\ ThreadsIdle /\ CurrentIdle /\ WithIdle /\ ExpiryIdle /\ IntersectIdle
SpecGo == InitGo /\ [][GoNext]_vars

\* ------------------------- WeakCallableReference and its expiry callback
\* the weak references reference r holds, lines 50 and 92-94: one to a plain
\* function; for a bound method one to the underlying function and one to
\* the instance, both made with the callback self._dereference
\* lines 92-94
weakrefs_of_method == {"func", "inst"}

weakrefs(r) ==
    IF refs[r].strong THEN {}
    ELSE IF bound[refs[r].fn] THEN weakrefs_of_method
    ELSE {"func"}

\* a reference object lives as long as the set of its pattern holds it; once
\* it is removed nothing else refers to it, and its weak references go with it
held(r) == r \in sets[refs[r].pattern]

\* the references that hold a weak reference w to the function or the
\* instance of fn
dying(fn, w) == {r \in 1..Len(refs) : refs[r].fn = fn /\ w \in weakrefs(r) /\ held(r)}

\* a strong reference keeps the callable, and with a bound method its
\* instance, reachable
strongly_held(fn) == \E r \in 1..Len(refs) : refs[r].fn = fn /\ refs[r].strong

\* the weak references ws of every reference of rs are cleared in one
\* collection and the callback of each runs: _dereference, lines 97-100, calls
\* the callback given by register (registry.py line 59), which runs
\* _unregister_proxy with the pattern of the registration; set.remove raises
\* KeyError for a reference that is no longer in its set, as it does on the
\* second callback of one reference
Expire(rs, ws) ==
    /\ op' = "expire"
    /\ arg_key' = <<>>
    /\ arg_absent' = FALSE
    /\ ret' = NoReturn
    /\ fired' = fired \cup {<<r, w>> : r \in rs, w \in ws}
    /\ sets' = [k \in DictKeys |-> {r \in sets[k] : ~(r \in rs /\ refs[r].pattern = k)}]
    /\ raised' = IF rs # {} /\ Cardinality(ws) > 1
                 THEN [kind |-> "KeyError", by |-> 0]
                 ELSE NoError

xframe == <<wvars, cvars, ivars, thvars, evtvars, frvars, dvars_but_key, refs, callvars,
            bound>>

\* the function object of fn becomes unreachable while the instance, if any,
\* stays
FunctionDies(fn) ==
    /\ alive[fn]
    /\ ~strongly_held(fn)
    /\ alive' = [alive EXCEPT ![fn] = FALSE]
    /\ Expire(dying(fn, "func"), {"func"})
    /\ UNCHANGED <<xframe, inst_alive>>

\* the instance a bound method belongs to becomes unreachable while its
\* class and function stay
InstanceDies(fn) ==
    /\ bound[fn]
    /\ inst_alive[fn]
    /\ ~strongly_held(fn)
    /\ inst_alive' = [inst_alive EXCEPT ![fn] = FALSE]
    /\ Expire(dying(fn, "inst"), {"inst"})
    /\ UNCHANGED <<xframe, alive>>

\* the instance and the function of a bound method are found unreachable in
\* the same collection (an instance in a reference cycle, and its class)
BothDie(fn) ==
    /\ bound[fn]
    /\ inst_alive[fn]
    /\ alive[fn]
    /\ ~strongly_held(fn)
    /\ inst_alive' = [inst_alive EXCEPT ![fn] = FALSE]
    /\ alive' = [alive EXCEPT ![fn] = FALSE]
    /\ Expire(dying(fn, "inst"), weakrefs_of_method)
    /\ UNCHANGED xframe

ExpiryNext ==
    \/ \E k \in DictKeys, fn \in Fns, st \in BOOLEAN : inst_alive[fn] /\ Register(k, fn, st)
    \/ \E fn \in Fns : FunctionDies(fn)
    \/ \E fn \in Fns : InstanceDies(fn)
    \/ \E fn \in Fns : BothDie(fn)

InitExpiry ==
    /\ bound \in [Fns -> BOOLEAN]
    /\ inst_alive = [fn \in Fns |-> TRUE]
    /\ fired = {}
    /\ RegistryIdle /\ DictIdle /\ EventIdle /\ ThreadsIdle /\ CurrentIdle /\ WithIdle
    /\ IntersectIdle

SpecExpiry == InitExpiry /\ [][ExpiryNext]_vars

\* ----------------------------------- util.GlobbableDict: glob_intersection
MaxPatterns == 2

\* the lists of patterns glob_intersection is tried with
PatternLists == SeqsUpTo(Queries, MaxPatterns)

\* glob(q), lines 117-121, on the cache c, and the cache it leaves
glob_on(c, q) == IF c[q].hit THEN c[q].vals ELSE _get_matching_items(q)
glob_cache_on(c, q) ==
    IF c[q].hit THEN c
    ELSE [c EXCEPT ![q] = [hit |-> TRUE, vals |-> _get_matching_items(q)]]

\* the cache after glob() of the first n queries of qs, one after the other
RECURSIVE cache_after(_, _)
cache_after(qs, n) ==
    IF n = 0 THEN _cache ELSE glob_cache_on(cache_after(qs, n - 1), qs[n])

\* line 71: matches = set(self.glob("*"))
first_matches == Range(glob_on(_cache, <<"*">>))

\* lines 73-74: matches.intersection_update(set(self.glob(pattern))) for the
\* first n patterns, each glob() on the cache the globs before it left
RECURSIVE intersection_update(_, _, _)
intersection_update(matches, ps, n) ==
    IF n = 0 THEN matches
    ELSE intersection_update(matches, ps, n - 1)
             \cap Range(glob_on(cache_after(<<<<"*">>>> \o ps, n), ps[n]))

\* glob_intersection(ps), lines 71-76; list(matches) is in no defined order
glob_intersection(ps) == intersection_update(first_matches, ps, Len(ps))

\* d.glob_intersection(ps): the result, the cache the calls of glob() leave,
\* and the last of those calls
GlobIntersection(ps) ==
    LET qs == <<<<"*">>>> \o ps
        last == qs[Len(qs)]
        last_vals == glob_on(cache_after(qs, Len(qs) - 1), last)
    IN  /\ op' = "glob_intersection"
        /\ arg_key' = <<>>
        /\ ret' = NoReturn
        /\ raised' = NoError
        /\ glob_patterns' = ps
        /\ intersection' = glob_intersection(ps)
        /\ _cache' = cache_after(qs, Len(qs))
        /\ glob_pattern' = last
        /\ globbed' = last_vals
        /\ mutated' = FALSE
        /\ refreshed' = (mutated /\ glob_pattern = last /\ globbed # last_vals)
        /\ UNCHANGED <<xvars, wvars, cvars, thvars, rvars, evtvars, frvars, dictcfg, items>>

IntersectNext ==
    \/ \E k \in DictKeys, v \in Values : SetItem(k, v)
    \/ \E k \in DictKeys : DelItem(k)
    \/ \E ps \in PatternLists : GlobIntersection(ps)

InitIntersect ==
    /\ DictInit
    /\ IntersectIdle
    /\ EventIdle /\ RegistryIdle /\ ThreadsIdle /\ CurrentIdle /\ WithIdle /\ ExpiryIdle

SpecIntersect == InitIntersect /\ [][IntersectNext]_vars

Init == EventInit /\ DictIdle /\ RegistryIdle /\ ThreadsIdle /\ CurrentIdle /\ WithIdle /\ ExpiryIdle /\ IntersectIdle
Next == EventNext
Spec == Init /\ [][Next]_vars

InitDict == DictInit /\ EventIdle /\ RegistryIdle /\ ThreadsIdle /\ CurrentIdle /\ WithIdle /\ ExpiryIdle /\ IntersectIdle
SpecDict == InitDict /\ [][DictNext]_vars

InitCall == RegistryIdle /\ DictIdle /\ EventIdle /\ ThreadsIdle /\ CurrentIdle /\ WithIdle /\ ExpiryIdle /\ IntersectIdle
SpecCall == InitCall /\ [][CallNext]_vars

InitThreads == ThreadsIdle /\ DictIdle /\ EventIdle /\ RegistryIdle /\ CurrentIdle /\ WithIdle /\ ExpiryIdle /\ IntersectIdle
SpecThreads == InitThreads /\ [][ThreadsNext]_vars

\* ------------------------------------------------------------------ claims
IsPrefix(s, t) == Len(s) <= Len(t) /\ \A i \in 1..Len(s) : s[i] = t[i]

\* the handlers call() is to invoke: those alive and registered under a key
\* that matches the filter
registered_under(fn, q) ==
    \E r \in 1..Len(refs) :
        /\ refs[r].fn = fn
        /\ r \in sets[refs[r].pattern]
        /\ get_callable(r) # "None"
        /\ match(_make_glob_re(q), refs[r].pattern)

invocations(fn) == Cardinality({i \in 1..Len(called) : called[i].fn = fn})

\* C1 (as claimed): call(args) invokes each live handler registered under a
\* key matching the filter exactly once with the call's arguments, invokes no
\* handler registered only under other keys, and returns an event with one
\* handle per invoked handler.
C1_CallInvokesEachOnce ==
    op = "call" =>
        /\ \A fn \in Fns :
               invocations(fn) = IF registered_under(fn, call_pattern) THEN 1 ELSE 0
        /\ \A i \in 1..Len(called) : called[i].args = call_args
        /\ call_futures = Cardinality({fn \in Fns : invocations(fn) > 0})

\* C2: over any sequence of d[k]=v, reads of a missing key through the default
\* factory, del d[k] and glob(q), every glob(q) returns what an uncached scan
\* of the current keys returns, and no cached list predates a mutation.
C2_CacheCoherent ==
    /\ op = "glob" => globbed = _get_matching_items(glob_pattern)
    /\ \A q \in Queries : _cache[q].hit => _cache[q].vals = _get_matching_items(q)

C2_Witness ==
    /\ op = "glob"
    /\ refreshed
    /\ globbed # <<>>
    /\ globbed = _get_matching_items(glob_pattern)

\* C3: once go() has been called on an Event, a later go() raises the
\* 'dispatch already started' error and submits nothing: the handles, the
\* submissions and the handler invocations are unchanged by the failed call.
C3_LaterGoRaises ==
    [][(op' = "go" /\ _dispatch_started) =>
          /\ raised' = [kind |-> "ValueError", by |-> 0]
          /\ UNCHANGED <<_futures, _completed_futures, _unexecuted, returned,
                         seen, fstate, work, gpc, _cancelled>>]_vars

C3_Witness ==
    /\ op = "go"
    /\ raised.kind = "ValueError"
    /\ Len(_futures) >= 1
    /\ Len(seen) >= 1

\* C4 (as claimed): a handler run inline during go() that calls
\* try_cancel_pending_calls() on its own event does so without raising, and no
\* handler later in the list is submitted or executed.
C4_CancelFromHandler ==
    \A i \in 1..Len(seen) :
        (executor = "sync" /\ calls[seen[i].handler] \in {"cancel0", "cancel1"}) =>
            /\ work[seen[i].work].result.kind # "typeerror"
            /\ \A j \in 1..Len(returned) : work[returned[j]].handler <= seen[i].handler
            /\ \A j \in 1..Len(seen) : seen[j].handler <= seen[i].handler

\* C5 (as claimed): first_result with a finite timeout returns None once the
\* timeout has elapsed with no handle completed non-cancelled; it does not go
\* on waiting.
C5_NoneAfterTimeout ==
    (fr_elapsed > 0 /\ fr_usable(wait_done) = {}) =>
        (fr_pc = "idle" /\ ret.kind = "noresult")

FRReturned == op = "first_result" /\ fr_pc = "idle"

\* C6 (as claimed): whenever a submitted handle has completed with a result
\* and is not cancelled, first_result returns the result of such a handle.
C6_ReturnsAResult ==
    (FRReturned /\ \E k \in Range(_futures) :
                      fstate[k] = "FINISHED" /\ foutcome[k].kind = "value") =>
        (ret.kind = "value" /\ ret.sel \in Range(_futures)
            /\ foutcome[ret.sel] = [kind |-> "value", by |-> ret.by])

\* C6 (amended): whenever a submitted handle has completed and is not
\* cancelled, first_result returns the result, or raises the failure, of such
\* a handle; it never answers on behalf of a cancelled handle, and it returns
\* nothing only when every handle is done and cancelled.
C6_FirstResult ==
    FRReturned =>
        /\ (\E k \in Range(_futures) : fstate[k] = "FINISHED") =>
               /\ ret.sel \in Range(_futures)
               /\ fstate[ret.sel] = "FINISHED"
               /\ ret.by = foutcome[ret.sel].by
               /\ ret.kind = IF foutcome[ret.sel].kind = "value"
                             THEN "value" ELSE "raised"
        /\ ret.sel # 0 => ~cancelled(ret.sel)
        /\ ret.kind = "noresult" =>
               \A k \in Range(_futures) : fstate[k] = "CANCELLED_AND_NOTIFIED"

C6_Witness ==
    /\ FRReturned
    /\ ret.kind = "value"
    /\ \E k \in Range(_futures) : fstate[k] = "CANCELLED_AND_NOTIFIED"

HandlerFailure(r) == r.kind \in {"exc", "typeerror"}

\* C7: if the handle first_result selects completed with a failure,
\* first_result raises that failure instead of returning a value; no other
\* Event operation raises a handler's failure.
C7_FailureOnlyFromFirstResult ==
    /\ (FRReturned /\ ret.sel # 0 /\ HandlerFailure(foutcome[ret.sel])) =>
           (raised = foutcome[ret.sel] /\ ret.kind = "raised")
    /\ HandlerFailure(raised) =>
           (FRReturned /\ ret.sel # 0 /\ raised = foutcome[ret.sel])

C7_Witness ==
    /\ FRReturned
    /\ raised.kind = "exc"
    /\ ret.sel # 0
    /\ calls[raised.by] = "raise"

\* C8: await_all returns exactly the submitted handles that have completed
\* and are not cancelled when it returns, never a pending or cancelled one,
\* and never raises a handler's failure.
C8_AwaitAll ==
    op = "await_all" =>
        /\ ret.futs = {k \in Range(_futures) : fstate[k] = "FINISHED"}
        /\ \A k \in ret.futs : ~cancelled(k) /\ fstate[k] \notin {"PENDING", "RUNNING"}
        /\ raised = NoError

C8_Witness ==
    /\ op = "await_all"
    /\ \E k \in ret.futs : foutcome[k].kind = "exc"
    /\ \A k \in ret.futs : foutcome[k].kind = "exc"
    /\ \E k \in Range(_futures) : fstate[k] = "CANCELLED_AND_NOTIFIED"

\* C9 (as claimed): go() submits one unit of work per handler in the order of
\* the handler list, and each unit of work invokes its handler with exactly
\* the arguments passed to go.  (Stated for a go() that was not cancelled.)
C9_SubmitsEachInOrder ==
    /\ (GoReturned /\ ~_cancelled) =>
           /\ Len(returned) = Len(calls)
           /\ \A j \in 1..Len(returned) : work[returned[j]].handler = j
    /\ \A i \in 1..Len(seen) :
           /\ seen[i].handler = work[seen[i].work].handler
           /\ seen[i].args = goargs[work[seen[i].work].frame]

\* C10: after go(), get_all_futures() returns exactly the handles the
\* executor returned for the event's submissions, in submission order.
C10_AllFutures ==
    /\ IsPrefix(get_all_futures, returned)
    /\ GoReturned => get_all_futures = returned

C10_Witness ==
    /\ GoReturned
    /\ Len(get_all_futures) = 2
    /\ get_all_futures = returned

weak_and_dead(r) == ~refs[r].strong /\ ~alive[refs[r].fn]

called_fns == [i \in 1..Len(called) |-> called[i].fn]

\* C19: the handlers a call invokes are those resolved when the call resolved
\* its matches; a registration or unregistration made while the call is in
\* flight adds no handler to the call and removes none from it.
C19_SnapshotFixed ==
    /\ IsPrefix(called_fns, call_list)
    /\ op = "call" => called_fns = call_list

C19_Witness ==
    /\ op = "call"
    /\ called # <<>>
    /\ {fn \in Fns : registered_under(fn, call_pattern)} # Range(call_list)

\* C20 (as claimed): removing a reference from a pattern's set a second time,
\* or for a pattern that has no set, raises nothing and leaves the registry's
\* keys and sets as they were.
C20_RemovalIdempotent ==
    [][(op' = "unregister" /\ arg_absent') =>
          /\ raised' = NoError
          /\ UNCHANGED <<items, sets>>]_vars

stores(o) == o = "setitem" \/ (o \in {"getitem", "register"} /\ default_factory)

\* C12: storing a key that contains '*' in a GlobbableDict that does not allow
\* wildcard keys, by d[k]=v or by the missing-key read Registry.register
\* makes, raises an error and leaves the keys, their values and the cache
\* unchanged; when wildcard keys are allowed the same insertion succeeds.
C12_WildcardKeyRejected ==
    [][(stores(op') /\ "*" \in Range(arg_key') /\ ~has_key(arg_key')) =>
          IF _allow_wildcard_keys
          THEN /\ raised' = NoError
               /\ \E i \in 1..Len(items') : items'[i].key = arg_key'
          ELSE /\ raised' = [kind |-> "AttributeError", by |-> 0]
               /\ UNCHANGED <<items, _cache>>]_vars

C12_Witness ==
    /\ op = "setitem"
    /\ "*" \in Range(arg_key)
    /\ raised.kind = "AttributeError"
    /\ items # <<>>
    /\ \E q \in Queries : _cache[q].hit

\* _get_matching_items(q) over the (key, value) pairs its
scan_of(its, q) ==
    LET hits == SelectSeq(its, LAMBDA it : key_matches(q, it.key))
    IN  [i \in 1..Len(hits) |-> hits[i].value]

\* C13: with threads concurrently mutating a GlobbableDict and calling glob, a
\* glob call that begins after a mutation has returned never returns a list
\* computed from the keys as they were before that mutation: what it returns
\* is a scan of the keys as left by the last returned mutation (or by the
\* write of a mutation that had not returned when the glob began), or of the
\* keys its own scan read under the lock.
C13_NoStaleGlob ==
    op = "glob" => \E its \in accept : globbed = scan_of(its, glob_pattern)

C13_Witness ==
    /\ op = "glob"
    /\ globbed # <<>>
    /\ accept = {items}
    /\ \E t \in Threads : tpc[t] = "g_lock"

\* the separator-delimited components of a key or of a glob pattern
RECURSIVE split_from(_, _, _)
split_from(str, i, cur) ==
    IF i > Len(str) THEN <<cur>>
    ELSE IF str[i] = _sep THEN <<cur>> \o split_from(str, i + 1, <<>>)
    ELSE split_from(str, i + 1, Append(cur, str[i]))

components(str) == split_from(str, 1, <<>>)

one_star == <<"*">>
two_stars == <<"*", "*">>

\* every component of q is a literal, '*' or '**'
whole_component_glob(q) ==
    \A i \in 1..Len(components(q)) :
        LET c == components(q)[i]
        IN  c = one_star \/ c = two_stars \/ "*" \notin Range(c)

\* qc matches kc from positions i and j on, component by component: a literal
\* is itself, '*' is exactly one component, '**' is at least least_run and any
\* number more components (without a line break when one_line)
RECURSIVE comp_match(_, _, _, _, _, _)
comp_match(qc, i, kc, j, least_run, one_line) ==
    IF i > Len(qc) THEN j > Len(kc)
    ELSE IF qc[i] = two_stars
         THEN \E n \in least_run..(Len(kc) - j + 1) :
                  /\ one_line => \A m \in j..(j + n - 1) : "\n" \notin Range(kc[m])
                  /\ comp_match(qc, i + 1, kc, j + n, least_run, one_line)
    ELSE IF qc[i] = one_star
         THEN j <= Len(kc) /\ comp_match(qc, i + 1, kc, j + 1, least_run, one_line)
    ELSE j <= Len(kc) /\ kc[j] = qc[i]
         /\ comp_match(qc, i + 1, kc, j + 1, least_run, one_line)

without_last(str) == SubSeq(str, 1, Len(str) - 1)

\* the one stored key of the dict, and whether the scan returned its value
the_key == items[1].key
returned_once == globbed = <<items[1].value>>
returned_never == globbed = <<>>

scanned_literal_key ==
    op = "scan" /\ items # <<>> /\ "*" \notin Range(the_key)

C15_BidirectionalMatch ==
    (op = "scan" /\ items # <<>> /\ _allow_wildcard_keys) =>
        IF \/ match(_make_glob_re(glob_pattern), the_key)
           \/ "*" \in Range(the_key) /\ match(_make_glob_re(the_key), glob_pattern)
        THEN returned_once ELSE returned_never

C15_Witness ==
    /\ op = "scan"
    /\ items # <<>>
    /\ _allow_wildcard_keys
    /\ "*" \in Range(the_key)
    /\ ~match(_make_glob_re(glob_pattern), the_key)
    /\ match(_make_glob_re(the_key), glob_pattern)
    /\ returned_once

\* C16 (as claimed): query '' matches exactly the key '', query '*' matches
\* every key with exactly one component (the empty key included) and no key
\* that contains the separator, and query '**' matches every key.
C16_EmptyPattern ==
    scanned_literal_key =>
        /\ glob_pattern = <<>> =>
               IF the_key = <<>> THEN returned_once ELSE returned_never
        /\ glob_pattern = one_star =>
               IF _sep \notin Range(the_key) THEN returned_once ELSE returned_never
        /\ glob_pattern = two_stars => returned_once

\* C17: with the synchronous executor a handler that raises does not stop the
\* dispatch: when go() has returned and nothing was cancelled, every handler
\* of the list was submitted and executed, in order, each handle is finished,
\* a handle holds a failure exactly when its own handler raised, and no step
\* of go() raises to the caller.
failed(k) == foutcome[k].kind \in {"exc", "typeerror"}
handler_raises(h) == calls[h] = "raise" \/ (calls[h] = "cancel0")

C17_FailureIsolated ==
    /\ []((executor = "sync" /\ GoReturned /\ ~_cancelled) =>
             /\ Len(seen) = Len(calls)
             /\ Len(fstate) = Len(calls)
             /\ \A k \in 1..Len(calls) :
                   /\ seen[k].handler = k
                   /\ fstate[k] = "FINISHED"
                   /\ foutcome[k].by = k
                   /\ failed(k) <=> handler_raises(k))
    /\ [][(executor = "sync" /\ gpc' # gpc) => raised' = NoError]_vars

C17_Witness ==
    /\ executor = "sync"
    /\ GoReturned
    /\ ~_cancelled
    /\ Len(calls) >= 2
    /\ calls[1] = "raise"
    /\ failed(1)
    /\ ~failed(2)
    /\ seen[2].handler = 2

\* C18: whenever current_event() is called inside a handler invocation,
\* also after the handler has made and returned from a nested call on the
\* same thread, it returns the event of that invocation; called outside every
\* handler invocation it raises the no-active-event error.
C18_CurrentEvent ==
    op = "current_event" =>
        IF in_handler
        THEN got.event = Top.event /\ raised = NoError
        ELSE got.event = NoEvent /\ raised = [kind |-> "ValueError", by |-> 0]

\* C21: within a single call no handler is invoked more than once, whatever
\* registrations preceded the call.
C21_AtMostOncePerCall == \A fn \in Fns : invocations(fn) <= 1

\* C22: Dispatcher.call dispatches as Event.go does: for the same handler
\* list, executor and arguments, once both have returned and their work has
\* run, the two have made the same submissions; and with the synchronous
\* executor a handler of call() that requests cancellation on its current
\* event is the last one call() submits.
event_submissions == [k \in 1..Len(work) |-> <<work[k].handler, work[k].args>>]
dispatcher_submissions == [i \in 1..Len(called) |-> <<called[i].fn, called[i].args>>]
event_done ==
    /\ GoReturned
    /\ \A k \in DOMAIN work : ~work[k].queued /\ fstate[k] # "RUNNING"
requests_cancel(h) == calls[h] = "cancel1"

C22_CallIsEventGo ==
    (dispatcher_done /\ event_done) =>
        /\ dispatcher_submissions = event_submissions
        /\ executor = "sync" =>
               \A i \in DOMAIN called :
                   requests_cancel(called[i].ran) => Len(called) = i

\* the submissions agree when no handler requests cancellation
C22_SideNoCancel ==
    (dispatcher_done /\ event_done /\ \A h \in DOMAIN calls : calls[h] # "cancel1") =>
        dispatcher_submissions = event_submissions

\* C23: with_filter and with_executor add one new Dispatcher and change
\* neither the registry's keys and sets nor the pattern and executor of any
\* existing Dispatcher, the receiver included; a call on a dispatcher submits,
\* to that dispatcher's executor, the live handlers registered under keys
\* matching that dispatcher's pattern.
C23_DerivingLeavesOriginal ==
    /\ [][op' \in {"with_filter", "with_executor"} =>
            /\ UNCHANGED <<items, refs, sets>>
            /\ Len(dispatchers') = Len(dispatchers) + 1
            /\ \A d \in DOMAIN dispatchers : dispatchers'[d] = dispatchers[d]
            /\ dispatchers'[call_on'] = dispatchers[call_on']]_vars
    /\ []((op = "call" /\ call_on # 0) =>
            /\ call_pattern = dispatchers[call_on].pattern
            /\ \A i \in DOMAIN called :
                   /\ called[i].executor = dispatchers[call_on].executor
                   /\ registered_under(called[i].fn, dispatchers[call_on].pattern)
            /\ \A fn \in Fns :
                   registered_under(fn, dispatchers[call_on].pattern) =>
                       invocations(fn) >= 1)

C23_Witness ==
    /\ op = "call"
    /\ call_on = 1
    /\ Len(dispatchers) > 1
    /\ \E d \in DOMAIN dispatchers : dispatchers[d].pattern # dispatchers[1].pattern
    /\ called # <<>>
    /\ \E fn \in Fns : ~registered_under(fn, call_pattern) /\ registered_under(fn, <<"a", ".", "*">>)

\* C24: there is no state in which a mutation's new key set can already be
\* read by the other threads while a glob returns a list computed from the
\* key set before that mutation: what a glob returns is a scan of the key set
\* the dict holds when the glob returns.
C24_NoStaleAfterVisible ==
    op = "glob" => globbed = scan_of(items, glob_pattern)

\* C25: when threads call go() on one Event concurrently, at most one of them
\* submits handlers and each handler of the event is submitted at most once
\* in total.
C25_OneGoSubmits ==
    \A j, k \in DOMAIN work :
        /\ work[j].frame = work[k].frame
        /\ j # k => work[j].handler # work[k].handler

\* no submission follows a completed cancellation
C26_NoLaterSubmission == [][_cancelled => Len(work') = Len(work)]_vars

\* a completed cancellation leaves no submitted handle pending
C26_EveryHandleCancelled ==
    [][(op' = "try_cancel" /\ raised' = NoError) =>
          \A k \in DOMAIN fstate : fstate'[k] # "PENDING"]_vars

\* C26: once a try_cancel_pending_calls has completed, go() submits no
\* further handler, and a try_cancel_pending_calls that completes has
\* attempted cancel() on every handle submitted so far, so it leaves none of
\* them pending.
C26_CancelStopsSubmission == C26_NoLaterSubmission /\ C26_EveryHandleCancelled

notifications(r) == Cardinality({w \in {"func", "inst"} : <<r, w>> \in fired})

\* C27: the expiry callback of a weak reference runs at most once per
\* reference, also for a reference to a bound method whose instance and
\* function both become unreachable, and the registry's handling of the
\* notification never raises.
C27_ExpiryOnce ==
    /\ \A r \in 1..Len(refs) : notifications(r) <= 1
    /\ op = "expire" => raised = NoError

\* the same for references to plain functions only
C27_SidePlainFunctions ==
    (\A fn \in Fns : ~bound[fn]) => C27_ExpiryOnce

\* the units of work that invoked handler j
invoked_by(j) == {i \in 1..Len(seen) : seen[i].handler = j}

\* a call that ran to its end: go() returned, nothing was cancelled and
\* the executor has run every unit of work
call_ran_out ==
    /\ GoReturned
    /\ ~_cancelled
    /\ \A k \in DOMAIN work : ~work[k].queued
    /\ \A k \in DOMAIN fstate : fstate[k] \notin {"CANCELLED", "CANCELLED_AND_NOTIFIED"}

\* C28: for any executor, also one that runs a unit of work only after later
\* submissions of the same call were made, the unit of work submitted for the
\* i-th handler invokes the i-th handler, so that every handler is invoked
\* exactly once per call.
C28_UnitInvokesOwnHandler ==
    /\ \A i \in 1..Len(seen) : seen[i].handler = work[seen[i].work].handler
    /\ call_ran_out => \A j \in 1..Len(calls) : Cardinality(invoked_by(j)) = 1

\* the same for an executor that runs the work inside submit
C28_SideSynchronous == executor = "sync" => C28_UnitInvokesOwnHandler

\* the same for the shim of Dispatcher.call
C28_SideDispatcher ==
    \A i \in DOMAIN called : called[i].ran \in {0, called[i].fn}

\* no '**' in q
single_stars_only(q) == \A i \in 1..(Len(q) - 1) : ~(q[i] = "*" /\ q[i + 1] = "*")

\* q matches str from positions i and j on when a literal character stands
\* for itself and '*' for a run of at least least_run characters other than
\* the separator
RECURSIVE star_match(_, _, _, _, _)
star_match(q, i, str, j, least_run) ==
    IF i > Len(q) THEN j > Len(str)
    ELSE IF q[i] = "*"
         THEN \E n \in least_run..(Len(str) - j + 1) :
                  /\ \A m \in j..(j + n - 1) : str[m] # _sep
                  /\ star_match(q, i + 1, str, j + n, least_run)
    ELSE j <= Len(str) /\ str[j] = q[i] /\ star_match(q, i + 1, str, j + 1, least_run)

\* the key, or the key without the line break it ends in, matches
star_match_line(q, str, least_run) ==
    \/ star_match(q, 1, str, 1, least_run)
    \/ /\ str # <<>>
       /\ str[Len(str)] = "\n"
       /\ star_match(q, 1, without_last(str), 1, least_run)

\* C29 (as claimed): a '*' in a compiled query stands for one or more
\* characters other than the separator; it never matches an empty fragment,
\* so 'a.*' does not match the key 'a.' and '*' does not match the empty key.
C29_StarOneOrMore ==
    (scanned_literal_key /\ single_stars_only(glob_pattern)) =>
        IF star_match_line(glob_pattern, the_key, 1)
        THEN returned_once ELSE returned_never

\* C29 (amended): a '*' in a compiled query stands for zero or more
\* characters other than the separator; it also matches an empty fragment, so
\* 'a.*' matches the key 'a.' and '*' matches the empty key.
C29_StarZeroOrMore ==
    (scanned_literal_key /\ single_stars_only(glob_pattern)) =>
        IF star_match_line(glob_pattern, the_key, 0)
        THEN returned_once ELSE returned_never

\* a scan in which a '*' of the query, next to a literal, stands for an empty
\* fragment of the key
C29_Witness ==
    /\ scanned_literal_key
    /\ single_stars_only(glob_pattern)
    /\ "*" \in Range(glob_pattern)
    /\ Len(glob_pattern) >= 2
    /\ the_key # <<>>
    /\ ~star_match_line(glob_pattern, the_key, 1)
    /\ returned_once

\* the values of the stored keys that match every pattern of ps, under the
\* rules of glob
values_matching_all(ps) ==
    {items[i].value : i \in {j \in 1..Len(items) :
                                 \A n \in 1..Len(ps) : key_matches(ps[n], items[j].key)}}

\* C30: glob_intersection(patterns) returns exactly the values whose keys
\* match every one of the patterns, under the wildcard rules of glob, for
\* keys of any number of components, and nothing when no key matches them
\* all.
C30_IntersectionOfMatches ==
    op = "glob_intersection" => intersection = values_matching_all(glob_patterns)

\* the same when '*' is one of the patterns
C30_SideWithStar ==
    (op = "glob_intersection" /\ <<"*">> \in Range(glob_patterns)) =>
        intersection = values_matching_all(glob_patterns)

\* the same when '*' is one of the patterns and no two keys hold equal values
C30_SideStarDistinctValues ==
    (/\ op = "glob_intersection"
     /\ <<"*">> \in Range(glob_patterns)
     /\ \A i, j \in 1..Len(items) : items[i].value = items[j].value => i = j) =>
        intersection = values_matching_all(glob_patterns)

\* the handles of the handle list that were submitted for handler j, and the
\* entries of the unexecuted list that record it
handles_of(j) == {i \in 1..Len(_futures) : work[_futures[i]].handler = j}
unexecuted_of(j) == {i \in 1..Len(_unexecuted) : _unexecuted[i] = j}

\* handler j is in exactly one of the two groups
in_one_group(j) == (handles_of(j) # {}) # (unexecuted_of(j) # {})

\* a step in which the turn of a handler comes in caller t's go()
turn(t) == gpc[t] = "loop" /\ gi'[t] = gi[t] + 1

\* the dispatch has started and no thread is inside go()
every_go_returned == _dispatch_started /\ \A t \in DOMAIN gpc : gpc[t] = "idle"

C31_OneGroupEach ==
    every_go_returned => \A j \in 1..Len(calls) : in_one_group(j)

C31_UnexecutedNeverSubmitted ==
    \A j \in Range(_unexecuted) : \A k \in DOMAIN work : work[k].handler # j

C31_SkippedWhenCancelled ==
    [][\A t \in DOMAIN gpc :
          (turn(t) /\ _cancelled) =>
              /\ _unexecuted' = Append(_unexecuted, gi[t])
              /\ gpc'[t] = "loop"
              /\ work' = work]_vars

\* C31: after go() has returned normally every handler of the event is in
\* exactly one of two groups, submitted (it has a handle in the handle list)
\* or recorded as unexecuted, and a handler whose turn came after the
\* cancellation flag was set is in the unexecuted group and was never passed
\* to the executor.
C31_SubmittedOrUnexecuted ==
    /\ [](C31_OneGroupEach /\ C31_UnexecutedNeverSubmitted)
    /\ C31_SkippedWhenCancelled

\* go() returned with a handle for one handler and another handler recorded
\* as unexecuted
C31_Witness ==
    /\ every_go_returned
    /\ _unexecuted # <<>>
    /\ _futures # <<>>
    /\ Len(_futures) + Len(_unexecuted) = Len(calls)

C32_CompletedAreKnown ==
    \A k \in Range(get_completed_futures) : k \in Range(get_all_futures)

C32_CompletedOnce ==
    \A i, j \in 1..Len(get_completed_futures) :
        get_completed_futures[i] = get_completed_futures[j] => i = j

\* C32: in every reachable state of an event, those seen from a completion
\* callback or from another thread during go() included, each handle of
\* get_completed_futures() is also in get_all_futures() and is in the
\* completed list exactly once.
C32_CompletedWithinAll == C32_CompletedAreKnown /\ C32_CompletedOnce

\* the same in the states in which no thread is between line 51 and line 53
\* of go()
C32_SideOutsideGo ==
    (\A t \in DOMAIN gpc : gpc[t] \notin {"addcb", "append"}) => C32_CompletedWithinAll

\* the outcome a shim hands to submit is the handler's own
own_outcome(raises) ==
    raised' = IF raises THEN [kind |-> "exc", by |-> 0] ELSE NoError

\* C33: with the synchronous executor the handle of each handler is complete
\* when the call returns and carries exactly what the handler returned or
\* raised; the shim never puts a failure of its own in its place, also when
\* the handler made a nested call on the same thread.
C33_OutcomeIsHandlersOwn ==
    [][\A raises \in BOOLEAN : ShimExit(raises) => own_outcome(raises)]_vars

\* the same for a handler that made no nested call: the current event is
\* still set when its shim ends
C33_SideNoNestedCall ==
    [][\A raises \in BOOLEAN :
          (ShimExit(raises) /\ _event_threadlocal = Top.event) => own_outcome(raises)]_vars

====
